---- MODULE Spec2Model ----
(***************************************************************************)
(* State-machine model of sockcanpp::CanDriver (src/src/CanDriver.cpp,     *)
(* src/include/CanDriver.hpp): one driver object shared by a small set of  *)
(* threads, the kernel side of its raw CAN socket (receive queue, handle   *)
(* table), and the two mutexes m_lock and m_lockSend.                      *)
(*                                                                         *)
(* Every statement of the driver that reads or writes a member, takes or   *)
(* releases a mutex, or issues a syscall is a step of the thread that      *)
(* executes it.  Statements that execute under one uninterrupted hold of   *)
(* m_lock and touch nothing another thread can see without that mutex are  *)
(* grouped into one step.                                                  *)
(***************************************************************************)
EXTENDS Integers, Sequences, FiniteSets, TLC

VARIABLES
    m_socketFd,           \* CanDriver::m_socketFd
    m_queueSize,          \* CanDriver::m_queueSize
    m_canReadQueueSize,   \* CanDriver::m_canReadQueueSize
    m_collectTelemetry,   \* CanDriver::m_collectTelemetry
    mutex,                \* owner of CanDriver::m_lock and CanDriver::m_lockSend
    fdOpen,               \* kernel: is the handle SockFd open
    rxq,                  \* kernel: receive queue of the socket (frame numbers)
    delivered,            \* kernel: number of frames delivered so far
    th,                   \* per thread: program counter, arguments and locals of its call
    last,                 \* the call the latest step completed, with its outcome
    calls,                \* number of driver calls started so far
    eval,                 \* function-level runs: the function applied, its input, its result
    life                  \* construction runs: arguments, position and syscalls of the constructor

vars == <<m_socketFd, m_queueSize, m_canReadQueueSize, m_collectTelemetry, mutex,
          fdOpen, rxq, delivered, th, last, calls, eval, life>>

(* What a run of the shared driver leaves alone. *)
apart == <<eval, life>>

----------------------------------------------------------------------------
(* Bounds of the model *)

MaxCalls == 3
MaxFrames == 2
MaxSendQueue == 1

(* Program and ABI constants *)

SockFd == 3
CanFrameSize == 16
CAN_MAX_DATA_LENGTH == 8

(* Two caller threads: every pair of operations can overlap. *)
Threads == {1, 2}
NoThread == 0

(* Kernel receive timestamp of frame n (SIOCGSTAMP); never zero. *)
KernelStamp(n) == 100 + n

CAN_SFF_MASK == 2047
CAN_ERR_MASK == 536870911

(* A 32-bit canid_t, by its fields: bit 31 (CAN_EFF_FLAG), bit 30           *)
(* (CAN_RTR_FLAG), bit 29 (CAN_ERR_FLAG) and the 29 address bits.           *)
canid_t(eff, rtr, err, addr) == [eff |-> eff, rtr |-> rtr, err |-> err, addr |-> addr]

(* x & CAN_ERR_MASK: the three flag bits cleared, the address bits kept. *)
MaskedId(x) == canid_t(FALSE, FALSE, FALSE, x.addr % (CAN_ERR_MASK + 1))

(* x | CAN_EFF_FLAG. *)
WithEffFlag(x) == [x EXCEPT !.eff = TRUE]

(* x > n as unsigned 32-bit numbers, for 0 <= n < 2^29. *)
Exceeds(x, n) == x.eff \/ x.rtr \/ x.err \/ x.addr > n

(* `(uint32_t)id`, `canid_t x = id` for a CanId: CanId::operator canid_t. *)
CanIdAsUint32(id) == MaskedId(id)

(* struct can_frame: identifier word, can_dlc, the 8 data bytes. *)
can_frame(can_id, dlc, data) == [can_id |-> can_id, dlc |-> dlc, data |-> data]

(* CanMessageT(const can_frame&): identifier and raw frame from the frame. *)
MessageFromFrame(frame) == [canId |-> frame.can_id, frame |-> frame]

(* CanMessageT(const CanId&, const string&) for a payload of at most 8      *)
(* bytes: the raw frame's can_id is the CanId converted to canid_t.         *)
MessageFromId(id, payload) ==
    [canId |-> id,
     frame |-> can_frame(CanIdAsUint32(id), Len(payload),
                         payload \o [k \in 1..(8 - Len(payload)) |-> 0])]

(* Messages a caller may pass to sendMessage (a message built from a raw    *)
(* frame may carry a can_dlc above 8).                                      *)
SendMessages ==
    {MessageFromFrame(can_frame(canid_t(FALSE, FALSE, FALSE, 291), d,
                                <<1, 2, 3, 4, 5, 6, 7, 8>>)) :
        d \in {CAN_MAX_DATA_LENGTH, CAN_MAX_DATA_LENGTH + 1}}

RECURSIVE SeqsUpTo(_, _)
SeqsUpTo(S, n) ==
    IF n = 0 THEN {<<>>}
    ELSE LET shorter == SeqsUpTo(S, n - 1)
         IN shorter \cup {Append(q, x) : q \in {s \in shorter : Len(s) = n - 1}, x \in S}

----------------------------------------------------------------------------
(* The operations a thread may call on the shared driver. *)

SockOptOps == {"allowCanFdFrames", "joinCanFilters", "setErrorFilter", "setReceiveOwnMessages"}
FilterOps == {"setCanFilters", "setCanFilterMask"}
ReadOps == {"waitForMessages", "readMessage", "readQueuedMessages"}
SendOps == {"sendMessage", "sendMessageQueue"}
GetterOps == {"getMessageQueueSize", "getSocketFd"}
IoOps == ReadOps \cup SendOps \cup FilterOps \cup SockOptOps

(* Arguments, locals and outcome of one call.  nsys, nreads, n0, errno and   *)
(* entryInvalid record what the call did: syscalls issued, read() calls      *)
(* issued, m_queueSize when the counted loop started, errno of the latest    *)
(* read(), and whether the driver was Unbound or Closed when the call began; *)
(* q0 is the caller's queue as it was when the call began.                   *)
IdleThread ==
    [pc |-> "idle", op |-> "none", res |-> "none",
     inq |-> <<>>, ext |-> FALSE,
     ready |-> FALSE, fds |-> 0, msgs |-> <<>>, i |-> 0, branch |-> "none",
     retCode |-> 0, errno |-> "none",
     ret |-> 0, sent |-> <<>>, nsys |-> 0, nreads |-> 0, n0 |-> 0, entryInvalid |-> FALSE,
     q0 |-> <<>>]

(* `last` when the latest step completed no call. *)
NoCall == [thread |-> NoThread, call |-> IdleThread]

(* `eval` when no function has been applied, `life` when no constructor runs. *)
NoEval == [fn |-> "none"]
NoLife == [pc |-> "none"]

----------------------------------------------------------------------------
(* The validity test every operation makes on the handle:                  *)
(* `if (m_socketFd < 0) throw InvalidSocketException`.                     *)
InvalidSocket_MissesMinusOne(fd) == fd < -1

InvalidSocket(fd) == fd < 0

(* std::unique_lock<std::mutex> construction: blocks while owned. *)
CanAcquire_NeverBlocks(m, t) == TRUE

CanAcquire(m, t) == mutex[m] = NoThread

Acquired(m, t) == [mutex EXCEPT ![m] = t]

(* Destruction of every unique_lock the thread holds (return or unwind). *)
Released(t) == [m \in DOMAIN mutex |-> IF mutex[m] = t THEN NoThread ELSE mutex[m]]

(* A syscall on the handle fd reaches the socket only if fd is open. *)
HandleOpen(fd) == fd = SockFd /\ fdOpen

----------------------------------------------------------------------------
Init ==
    /\ m_socketFd \in {-1, SockFd}
    /\ fdOpen = (m_socketFd = SockFd)
    /\ m_queueSize = 0
    /\ m_canReadQueueSize = TRUE
    /\ m_collectTelemetry = FALSE
    /\ mutex = [m_lock |-> NoThread, m_lockSend |-> NoThread]
    /\ rxq = <<>>
    /\ delivered = 0
    /\ th = [t \in Threads |-> IdleThread]
    /\ last = NoCall
    /\ calls = 0
    /\ eval = NoEval
    /\ life = NoLife

(* The kernel delivers one more frame to the socket's receive queue. *)
KernelDeliver ==
    /\ fdOpen
    /\ delivered < MaxFrames
    /\ delivered' = delivered + 1
    /\ rxq' = Append(rxq, delivered + 1)
    /\ last' = NoCall
    /\ UNCHANGED <<m_socketFd, m_queueSize, m_canReadQueueSize, m_collectTelemetry,
                   mutex, fdOpen, th, calls>>
    /\ UNCHANGED apart

----------------------------------------------------------------------------
(* Calls.  A thread that is idle may call an operation; the call begins     *)
(* with the operation's first statement.                                    *)

MayCall(t) == th[t].pc = "idle" /\ calls < MaxCalls

(* The thread's record when it enters operation o with input queue q and    *)
(* flag argument e (forceExtended / enabled).                               *)
Entered(o, q, e) ==
    [IdleThread EXCEPT !.op = o, !.inq = q, !.q0 = q, !.ext = e,
                       !.entryInvalid = (m_socketFd = -1)]

(* The records with which thread t can execute the first statement of       *)
(* operation o: a new call, with every argument in args.                    *)
NewCalls(t, ops, queues, flags) ==
    IF MayCall(t)
    THEN {Entered(o, q, e) : o \in ops, q \in queues, e \in flags}
    ELSE {}

(* The call counter after a step of thread t. *)
CallsAfter(t) == IF th[t].pc = "idle" THEN calls + 1 ELSE calls

(* The thread goes on at program counter pc with record rec. *)
Goto(t, rec, pc) ==
    /\ th' = [th EXCEPT ![t] = [rec EXCEPT !.pc = pc]]
    /\ last' = NoCall

(* Return and throw: both destroy the locks the thread holds. *)
Return(t, rec) ==
    /\ th' = [th EXCEPT ![t] = IdleThread]
    /\ last' = [thread |-> t, call |-> [rec EXCEPT !.pc = "idle", !.res = "ok"]]
    /\ mutex' = Released(t)

Throw(t, rec, kind) ==
    /\ th' = [th EXCEPT ![t] = IdleThread]
    /\ last' = [thread |-> t, call |-> [rec EXCEPT !.pc = "idle", !.res = kind]]
    /\ mutex' = Released(t)

(* The validity test that opens an operation (lines 102, 204, 271, 293,     *)
(* 347, 383, 406, 440, 463): throw, or go on at program counter pc.         *)
ValidityCheck(t, rec, pc) ==
    IF InvalidSocket(m_socketFd)
    THEN Throw(t, rec, "InvalidSocket")
    ELSE Goto(t, rec, pc) /\ UNCHANGED mutex

(* Taking mutex m at program counter from, going on at program counter to. *)
Lock(t, m, from, to) ==
    /\ th[t].pc = from
    /\ CanAcquire(m, t)
    /\ mutex' = Acquired(m, t)
    /\ Goto(t, th[t], to)

----------------------------------------------------------------------------
(* Kernel side of the syscalls the driver issues. *)

(* select() on the handle: readable, timed out, or interrupted. *)
SelectResults(fd) ==
    IF ~HandleOpen(fd) THEN {-1, 0}
    ELSE {IF rxq # <<>> THEN 1 ELSE 0, -1}

(* ioctl(FIONREAD): unsupported (-1), or 0 and the bytes queued, one        *)
(* can_frame per queued frame.                                              *)
FionreadResults(fd) ==
    IF ~HandleOpen(fd) THEN {[ret |-> -1, bytes |-> 0]}
    ELSE {[ret |-> -1, bytes |-> 0], [ret |-> 0, bytes |-> CanFrameSize * Len(rxq)]}

(* read() of one can_frame from the non-blocking socket. *)
ReadResults(fd) ==
    IF ~HandleOpen(fd) THEN {[ret |-> -1, errno |-> "EBADF", frame |-> 0]}
    ELSE IF rxq = <<>> THEN {[ret |-> -1, errno |-> "EAGAIN", frame |-> 0],
                             [ret |-> -1, errno |-> "EIO", frame |-> 0]}
    ELSE {[ret |-> CanFrameSize, errno |-> "none", frame |-> Head(rxq)],
          [ret |-> -1, errno |-> "EIO", frame |-> 0]}

(* The receive queue after a read() that returned r. *)
QueueAfterRead(r) == IF r.ret >= 0 THEN Tail(rxq) ELSE rxq

(* write() of one can_frame: failure, short write, or the whole frame. *)
WriteResults(fd) ==
    IF ~HandleOpen(fd) THEN {-1} ELSE {-1, CanFrameSize \div 2, CanFrameSize}

(* setsockopt() and ioctl(SIOCGSTAMP): 0 or -1. *)
OptionResults(fd) == IF ~HandleOpen(fd) THEN {-1} ELSE {0, -1}

----------------------------------------------------------------------------
(* waitForMessages *)

(* `std::ceil(bytesAvailable / sizeof(can_frame))`: the division is integer *)
(* division, so std::ceil receives a whole number.                          *)
FramesFor(bytes) == bytes \div CanFrameSize

(* m_queueSize after the FIONREAD query (lines 115-122). *)
QueueSizeAfterQuery(q) == IF q.ret = 0 THEN FramesFor(q.bytes) ELSE 0

(* m_canReadQueueSize after the FIONREAD query (lines 115-122). *)
CanReadAfterQuery_Restores(q, cur) == q.ret = 0

CanReadAfterQuery(q, cur) == IF q.ret = 0 THEN cur ELSE FALSE

(* Line 124: `return fdsAvailable > 0`. *)
WaitResult_NonZero(fds) == fds # 0

WaitResult(fds) == fds > 0

(* Line 102. *)
waitForMessages_check(t) ==
    /\ \E rec \in NewCalls(t, {"waitForMessages"}, {<<>>}, {FALSE}) :
         ValidityCheck(t, rec, "wfm_lock")
    /\ calls' = CallsAfter(t)
    /\ UNCHANGED <<m_socketFd, m_queueSize, m_canReadQueueSize, m_collectTelemetry,
                   fdOpen, rxq, delivered>>
    /\ UNCHANGED apart

(* Line 104. *)
waitForMessages_lock(t) ==
    /\ Lock(t, "m_lock", "wfm_lock", "wfm_select")
    /\ UNCHANGED calls
    /\ UNCHANGED <<m_socketFd, m_queueSize, m_canReadQueueSize, m_collectTelemetry,
                   fdOpen, rxq, delivered>>
    /\ UNCHANGED apart

(* Lines 106-111. *)
waitForMessages_select(t) ==
    /\ th[t].pc = "wfm_select"
    /\ \E n \in SelectResults(m_socketFd) :
         Goto(t, [th[t] EXCEPT !.fds = n, !.nsys = @ + 1], "wfm_ioctl")
    /\ UNCHANGED <<mutex, calls>>
    /\ UNCHANGED <<m_socketFd, m_queueSize, m_canReadQueueSize, m_collectTelemetry,
                   fdOpen, rxq, delivered>>
    /\ UNCHANGED apart

(* Lines 113-124. *)
waitForMessages_ioctl(t) ==
    /\ th[t].pc = "wfm_ioctl"
    /\ \E q \in FionreadResults(m_socketFd) :
         /\ m_queueSize' = QueueSizeAfterQuery(q)
         /\ m_canReadQueueSize' = CanReadAfterQuery(q, m_canReadQueueSize)
         /\ Return(t, [th[t] EXCEPT !.ready = WaitResult(th[t].fds), !.retCode = q.ret,
                                    !.nsys = @ + 1])
    /\ UNCHANGED <<m_socketFd, m_collectTelemetry, fdOpen, rxq, delivered, calls>>
    /\ UNCHANGED apart

----------------------------------------------------------------------------
(* readMessage / readMessageLock *)

(* CanMessage{canFrame} and CanMessage{canFrame, timestamp}. *)
CanMessage_DropsStamp(frame, ts) == [frame |-> frame, ts |-> 0]

CanMessage(frame, ts) == [frame |-> frame, ts |-> ts]

(* Line 167: `read(...) < 0`, whatever errno says. *)
ReadFailed(r) == r.ret < 0

(* The body of readMessageLock after the optional locking (lines 164-192): *)
(* fd is m_socketFd, r the result of read(), s the result of SIOCGSTAMP.   *)
readMessageLock(fd, telemetry, r, s) ==
    IF InvalidSocket(fd)
    THEN [exc |-> "InvalidSocket", msg |-> <<>>, nsys |-> 0, nreads |-> 0]
    ELSE IF ReadFailed(r)
    THEN [exc |-> "IoFailure", msg |-> <<>>, nsys |-> 1, nreads |-> 1]
    ELSE IF telemetry
    THEN IF s < 0
         THEN [exc |-> "IoFailure", msg |-> <<>>, nsys |-> 2, nreads |-> 1]
         ELSE [exc |-> "none", msg |-> <<CanMessage(r.frame, KernelStamp(r.frame))>>,
               nsys |-> 2, nreads |-> 1]
    ELSE [exc |-> "none", msg |-> <<CanMessage(r.frame, 0)>>, nsys |-> 1, nreads |-> 1]

(* The thread's record after readMessageLock produced `out` from read() r. *)
AfterRead(rec, out, r) ==
    [rec EXCEPT !.nsys = @ + out.nsys, !.nreads = @ + out.nreads,
                !.errno = IF out.nreads > 0 THEN r.errno ELSE @]

(* Line 152: readMessage() calls readMessageLock(true), whose first         *)
(* statement (line 162) waits for m_lock.                                   *)
readMessage_call(t) ==
    /\ \E rec \in NewCalls(t, {"readMessage"}, {<<>>}, {FALSE}) :
         Goto(t, rec, "rm_lock")
    /\ calls' = CallsAfter(t)
    /\ UNCHANGED mutex
    /\ UNCHANGED <<m_socketFd, m_queueSize, m_canReadQueueSize, m_collectTelemetry,
                   fdOpen, rxq, delivered>>
    /\ UNCHANGED apart

(* Line 162. *)
readMessage_lock(t) ==
    /\ Lock(t, "m_lock", "rm_lock", "rm_read")
    /\ UNCHANGED calls
    /\ UNCHANGED <<m_socketFd, m_queueSize, m_canReadQueueSize, m_collectTelemetry,
                   fdOpen, rxq, delivered>>
    /\ UNCHANGED apart

(* Lines 164-192. *)
readMessage_read(t) ==
    /\ th[t].pc = "rm_read"
    /\ \E r \in ReadResults(m_socketFd), s \in OptionResults(m_socketFd) :
         LET out == readMessageLock(m_socketFd, m_collectTelemetry, r, s)
             rec == [AfterRead(th[t], out, r) EXCEPT !.msgs = out.msg]
         IN /\ rxq' = IF out.nreads > 0 THEN QueueAfterRead(r) ELSE rxq
            /\ IF out.exc = "none" THEN Return(t, rec) ELSE Throw(t, rec, out.exc)
    /\ UNCHANGED <<m_socketFd, m_queueSize, m_canReadQueueSize, m_collectTelemetry,
                   fdOpen, delivered, calls>>
    /\ UNCHANGED apart

----------------------------------------------------------------------------
(* readQueuedMessages *)

(* The `lock` argument readQueuedMessages passes to readMessageLock (line 300). *)
DrainLockArg_Relocks == TRUE

DrainLockArg == FALSE

(* The condition `0 < i` of the counted loop (line 299). *)
LoopContinues_Inclusive(i) == 0 <= i

LoopContinues(i) == 0 < i

(* messages.emplace(m): std::queue appends at the back. *)
Emplace_AtFront(q, m) == m \o q

Emplace(q, m) == q \o m

(* Line 328: `errno == EAGAIN || errno == EWOULDBLOCK` (one value on Linux). *)
WouldBlock_AnyError(r) == TRUE

WouldBlock(r) == r.errno = "EAGAIN"

(* Line 293. *)
readQueuedMessages_check(t) ==
    /\ \E rec \in NewCalls(t, {"readQueuedMessages"}, {<<>>}, {FALSE}) :
         ValidityCheck(t, rec, "rqm_lock")
    /\ calls' = CallsAfter(t)
    /\ UNCHANGED <<m_socketFd, m_queueSize, m_canReadQueueSize, m_collectTelemetry,
                   fdOpen, rxq, delivered>>
    /\ UNCHANGED apart

(* Lines 295-299: take m_lock, then, holding it, choose the branch and read *)
(* m_queueSize.                                                             *)
readQueuedMessages_lock(t) ==
    /\ th[t].pc = "rqm_lock"
    /\ CanAcquire("m_lock", t)
    /\ mutex' = Acquired("m_lock", t)
    /\ IF m_canReadQueueSize
       THEN Goto(t, [th[t] EXCEPT !.branch = "A", !.i = m_queueSize, !.n0 = m_queueSize],
                 "rqm_A")
       ELSE Goto(t, [th[t] EXCEPT !.branch = "B"], "rqm_B")
    /\ UNCHANGED calls
    /\ UNCHANGED <<m_socketFd, m_queueSize, m_canReadQueueSize, m_collectTelemetry,
                   fdOpen, rxq, delivered>>
    /\ UNCHANGED apart

(* Branch A, lines 299-301: one iteration of the counted loop, or its exit. *)
readQueuedMessages_known(t) ==
    /\ th[t].pc = "rqm_A"
    /\ IF LoopContinues(th[t].i)
       THEN /\ DrainLockArg => CanAcquire("m_lock", t)
            /\ \E r \in ReadResults(m_socketFd), s \in OptionResults(m_socketFd) :
                 LET out == readMessageLock(m_socketFd, m_collectTelemetry, r, s)
                     rec == AfterRead(th[t], out, r)
                 IN /\ rxq' = IF out.nreads > 0 THEN QueueAfterRead(r) ELSE rxq
                    /\ IF out.exc = "none"
                       THEN /\ Goto(t, [rec EXCEPT !.msgs = Emplace(@, out.msg), !.i = @ - 1],
                                    "rqm_A")
                            /\ UNCHANGED mutex
                       ELSE Throw(t, [rec EXCEPT !.msgs = <<>>], out.exc)
       ELSE /\ Return(t, th[t])
            /\ UNCHANGED rxq
    /\ UNCHANGED <<m_socketFd, m_queueSize, m_canReadQueueSize, m_collectTelemetry,
                   fdOpen, delivered, calls>>
    /\ UNCHANGED apart

(* Branch B, lines 307-333: one iteration of the read-until-EAGAIN loop. *)
readQueuedMessages_unknown(t) ==
    /\ th[t].pc = "rqm_B"
    /\ \E r \in ReadResults(m_socketFd), s \in OptionResults(m_socketFd) :
         LET rec == [th[t] EXCEPT !.nreads = @ + 1, !.errno = r.errno,
                        !.nsys = @ + (IF r.ret >= 0 /\ m_collectTelemetry THEN 2 ELSE 1)]
         IN /\ rxq' = QueueAfterRead(r)
            /\ IF r.ret >= 0
               THEN IF m_collectTelemetry
                    THEN IF s < 0
                         THEN Throw(t, [rec EXCEPT !.msgs = <<>>], "IoFailure")
                         ELSE /\ Goto(t, [rec EXCEPT !.msgs = Emplace(@,
                                            <<CanMessage(r.frame, KernelStamp(r.frame))>>)],
                                      "rqm_B")
                              /\ UNCHANGED mutex
                    ELSE /\ Goto(t, [rec EXCEPT !.msgs = Emplace(@, <<CanMessage(r.frame, 0)>>)],
                                 "rqm_B")
                         /\ UNCHANGED mutex
               ELSE IF WouldBlock(r)
                    THEN Return(t, rec)
                    ELSE Throw(t, [rec EXCEPT !.msgs = <<>>], "IoFailure")
    /\ UNCHANGED <<m_socketFd, m_queueSize, m_canReadQueueSize, m_collectTelemetry,
                   fdOpen, delivered, calls>>
    /\ UNCHANGED apart

----------------------------------------------------------------------------
(* sendMessage / sendMessageQueue *)

(* The mutex sendMessage locks (line 206). *)
SendMessageMutex_ReadLock == "m_lock"

SendMessageMutex == "m_lockSend"

(* Line 222: is CAN_EFF_FLAG or-ed into the outgoing can_id. *)
SetsExtendedFlag_OnlyForced(m, forceExtended) == forceExtended

SetsExtendedFlag(m, forceExtended) ==
    forceExtended \/ Exceeds(CanIdAsUint32(m.canId), CAN_SFF_MASK)

(* The can_frame handed to write() (lines 220-222): a copy of the message's *)
(* raw frame, with CAN_EFF_FLAG or-ed in when line 222 says so.             *)
OutgoingFrame(m, forceExtended) ==
    IF SetsExtendedFlag(m, forceExtended)
    THEN [m.frame EXCEPT !.can_id = WithEffFlag(@)]
    ELSE m.frame

(* Line 210: `message.getFrameData().size() > CAN_MAX_DATA_LENGTH`;         *)
(* getFrameData() returns can_dlc bytes.                                    *)
PayloadTooLarge_OffByOne(m) == m.frame.dlc > CAN_MAX_DATA_LENGTH + 1

PayloadTooLarge(m) == m.frame.dlc > CAN_MAX_DATA_LENGTH

(* messages.front() (line 276); a single send has one message. *)
Front_Back(q) == q[Len(q)]

Front(q) == Head(q)

(* Line 204, as the first statement of a call of sendMessage or inside a    *)
(* call of sendMessageQueue.                                                *)
sendMessage_check(t) ==
    /\ \E rec \in (IF th[t].pc = "sm_check" THEN {th[t]}
                   ELSE NewCalls(t, {"sendMessage"}, {<<m>> : m \in SendMessages}, BOOLEAN)) :
         ValidityCheck(t, rec, "sm_lock")
    /\ calls' = CallsAfter(t)
    /\ UNCHANGED <<m_socketFd, m_queueSize, m_canReadQueueSize, m_collectTelemetry,
                   fdOpen, rxq, delivered>>
    /\ UNCHANGED apart

(* Line 206. *)
sendMessage_lock(t) ==
    /\ Lock(t, SendMessageMutex, "sm_lock", "sm_write")
    /\ UNCHANGED calls
    /\ UNCHANGED <<m_socketFd, m_queueSize, m_canReadQueueSize, m_collectTelemetry,
                   fdOpen, rxq, delivered>>
    /\ UNCHANGED apart

(* Line 276, `messages.pop()`: the queue without its front element. *)
Pop_All(q) == <<>>

Pop(q) == Tail(q)

(* Lines 208-236: length check, frame construction, write(), result check.  *)
(* The frame a write() accepted (any return >= 0) is appended to `sent`.     *)
(* Inside sendMessageQueue a successful send is followed by `messages.pop()` *)
(* and the next test of `!messages.empty()` (lines 275-277).                 *)
sendMessage_write(t) ==
    /\ th[t].pc = "sm_write"
    /\ LET m == Front(th[t].inq)
       IN IF PayloadTooLarge(m)
          THEN Throw(t, th[t], "PayloadTooLarge")
          ELSE \E w \in WriteResults(m_socketFd) :
                    LET rec == [th[t] EXCEPT !.nsys = @ + 1] IN
                    IF w < 0
                    THEN Throw(t, rec, "IoFailure")
                    ELSE LET done == [rec EXCEPT !.ret = @ + w,
                                        !.sent = Append(@, OutgoingFrame(m, th[t].ext))]
                         IN IF th[t].op = "sendMessageQueue" /\ Pop(th[t].inq) # <<>>
                            THEN /\ Goto(t, [done EXCEPT !.inq = Pop(@)], "sm_check")
                                 /\ mutex' = Released(t)
                            ELSE Return(t, [done EXCEPT !.inq =
                                     IF th[t].op = "sendMessageQueue" THEN Pop(@) ELSE @])
    /\ UNCHANGED calls
    /\ UNCHANGED <<m_socketFd, m_queueSize, m_canReadQueueSize, m_collectTelemetry,
                   fdOpen, rxq, delivered>>
    /\ UNCHANGED apart

(* Lines 271-275: the validity test and the first test of the loop         *)
(* condition, for a call whose input queue is one of `queues`.               *)
sendMessageQueue_start(t, queues) ==
    /\ \E rec \in NewCalls(t, {"sendMessageQueue"}, queues, BOOLEAN) :
         IF InvalidSocket(m_socketFd)
         THEN Throw(t, rec, "InvalidSocket")
         ELSE IF rec.inq = <<>>
         THEN Return(t, rec)
         ELSE Goto(t, rec, "sm_check") /\ UNCHANGED mutex
    /\ calls' = CallsAfter(t)
    /\ UNCHANGED <<m_socketFd, m_queueSize, m_canReadQueueSize, m_collectTelemetry,
                   fdOpen, rxq, delivered>>
    /\ UNCHANGED apart

sendMessageQueue_check(t) ==
    sendMessageQueue_start(t, SeqsUpTo(SendMessages, MaxSendQueue))

----------------------------------------------------------------------------
(* setCanFilters / setCanFilterMask (line 398 forwards to setCanFilters) *)

(* Line 406. *)
setCanFilters_check(t) ==
    /\ \E rec \in NewCalls(t, FilterOps, {<<>>}, {FALSE}) :
         ValidityCheck(t, rec, "scf_lock")
    /\ calls' = CallsAfter(t)
    /\ UNCHANGED <<m_socketFd, m_queueSize, m_canReadQueueSize, m_collectTelemetry,
                   fdOpen, rxq, delivered>>
    /\ UNCHANGED apart

(* Line 408. *)
setCanFilters_lock(t) ==
    /\ Lock(t, "m_lock", "scf_lock", "scf_setsockopt")
    /\ UNCHANGED calls
    /\ UNCHANGED <<m_socketFd, m_queueSize, m_canReadQueueSize, m_collectTelemetry,
                   fdOpen, rxq, delivered>>
    /\ UNCHANGED apart

(* Lines 409-424. *)
setCanFilters_setsockopt(t) ==
    /\ th[t].pc = "scf_setsockopt"
    /\ \E r \in OptionResults(m_socketFd) :
         LET rec == [th[t] EXCEPT !.nsys = @ + 1] IN
         IF r = -1 THEN Throw(t, rec, "InitializationFailure") ELSE Return(t, rec)
    /\ UNCHANGED calls
    /\ UNCHANGED <<m_socketFd, m_queueSize, m_canReadQueueSize, m_collectTelemetry,
                   fdOpen, rxq, delivered>>
    /\ UNCHANGED apart

----------------------------------------------------------------------------
(* allowCanFdFrames, joinCanFilters, setErrorFilter, setReceiveOwnMessages: *)
(* the validity test, then one setsockopt(), with no mutex.                 *)

(* Lines 347, 383, 440, 463. *)
socketOption_check(t) ==
    /\ \E rec \in NewCalls(t, SockOptOps, {<<>>}, {FALSE}) :
         ValidityCheck(t, rec, "opt_setsockopt")
    /\ calls' = CallsAfter(t)
    /\ UNCHANGED <<m_socketFd, m_queueSize, m_canReadQueueSize, m_collectTelemetry,
                   fdOpen, rxq, delivered>>
    /\ UNCHANGED apart

(* Lines 351, 387, 444, 467. *)
socketOption_setsockopt(t) ==
    /\ th[t].pc = "opt_setsockopt"
    /\ \E r \in OptionResults(m_socketFd) :
         LET rec == [th[t] EXCEPT !.nsys = @ + 1] IN
         IF r = -1 THEN Throw(t, rec, "InitializationFailure") ELSE Return(t, rec)
    /\ UNCHANGED calls
    /\ UNCHANGED <<m_socketFd, m_queueSize, m_canReadQueueSize, m_collectTelemetry,
                   fdOpen, rxq, delivered>>
    /\ UNCHANGED apart

----------------------------------------------------------------------------
(* uninitialiseSocketCan *)

(* close(): 0 releases the handle; on -1 the handle may or may not have been *)
(* released.                                                                 *)
CloseResults(fd) ==
    IF ~HandleOpen(fd) THEN {[ret |-> -1, open |-> fdOpen]}
    ELSE {[ret |-> 0, open |-> FALSE], [ret |-> -1, open |-> FALSE], [ret |-> -1, open |-> TRUE]}

(* The call of uninitialiseSocketCan, whose first statement (line 550)      *)
(* waits for m_lock.                                                        *)
uninitialiseSocketCan_call(t) ==
    /\ \E rec \in NewCalls(t, {"uninitialiseSocketCan"}, {<<>>}, {FALSE}) :
         Goto(t, rec, "un_lock")
    /\ calls' = CallsAfter(t)
    /\ UNCHANGED mutex
    /\ UNCHANGED <<m_socketFd, m_queueSize, m_canReadQueueSize, m_collectTelemetry,
                   fdOpen, rxq, delivered>>
    /\ UNCHANGED apart

(* Line 550. *)
uninitialiseSocketCan_lock(t) ==
    /\ Lock(t, "m_lock", "un_lock", "un_close")
    /\ UNCHANGED calls
    /\ UNCHANGED <<m_socketFd, m_queueSize, m_canReadQueueSize, m_collectTelemetry,
                   fdOpen, rxq, delivered>>
    /\ UNCHANGED apart

(* Line 552: `if (m_socketFd <= 0) throw CanCloseException`. *)
CloseRefused_Never(fd) == FALSE

CloseRefused(fd) == fd <= 0

(* Lines 552-564. *)
uninitialiseSocketCan_close(t) ==
    /\ th[t].pc = "un_close"
    /\ IF CloseRefused(m_socketFd)
       THEN /\ Throw(t, th[t], "CloseFailure")
            /\ UNCHANGED <<m_socketFd, fdOpen>>
       ELSE \E c \in CloseResults(m_socketFd) :
              LET rec == [th[t] EXCEPT !.nsys = @ + 1] IN
              /\ fdOpen' = c.open
              /\ IF c.ret = -1
                 THEN Throw(t, rec, "CloseFailure") /\ UNCHANGED m_socketFd
                 ELSE Return(t, rec) /\ m_socketFd' = -1
    /\ UNCHANGED <<m_queueSize, m_canReadQueueSize, m_collectTelemetry,
                   rxq, delivered, calls>>
    /\ UNCHANGED apart

----------------------------------------------------------------------------
(* getMessageQueueSize / getSocketFd / setCollectTelemetry: no mutex. *)

(* CanDriver.hpp lines 104-105. *)
getter_read(t) ==
    /\ \E rec \in NewCalls(t, GetterOps, {<<>>}, {FALSE}) :
         Return(t, [rec EXCEPT !.ret = IF rec.op = "getSocketFd" THEN m_socketFd
                                       ELSE m_queueSize])
    /\ calls' = CallsAfter(t)
    /\ UNCHANGED <<m_socketFd, m_queueSize, m_canReadQueueSize, m_collectTelemetry,
                   fdOpen, rxq, delivered>>
    /\ UNCHANGED apart

(* Line 432. *)
setCollectTelemetry(t) ==
    /\ \E rec \in NewCalls(t, {"setCollectTelemetry"}, {<<>>}, BOOLEAN) :
         /\ m_collectTelemetry' = rec.ext
         /\ Return(t, rec)
    /\ calls' = CallsAfter(t)
    /\ UNCHANGED <<m_socketFd, m_queueSize, m_canReadQueueSize, fdOpen, rxq, delivered>>
    /\ UNCHANGED apart

----------------------------------------------------------------------------
ThreadStep(t) ==
    \/ waitForMessages_check(t)
    \/ waitForMessages_lock(t)
    \/ waitForMessages_select(t)
    \/ waitForMessages_ioctl(t)
    \/ readMessage_call(t)
    \/ readMessage_lock(t)
    \/ readMessage_read(t)
    \/ readQueuedMessages_check(t)
    \/ readQueuedMessages_lock(t)
    \/ readQueuedMessages_known(t)
    \/ readQueuedMessages_unknown(t)
    \/ sendMessage_check(t)
    \/ sendMessage_lock(t)
    \/ sendMessage_write(t)
    \/ sendMessageQueue_check(t)
    \/ setCanFilters_check(t)
    \/ setCanFilters_lock(t)
    \/ setCanFilters_setsockopt(t)
    \/ socketOption_check(t)
    \/ socketOption_setsockopt(t)
    \/ uninitialiseSocketCan_call(t)
    \/ uninitialiseSocketCan_lock(t)
    \/ uninitialiseSocketCan_close(t)
    \/ getter_read(t)
    \/ setCollectTelemetry(t)

Next ==
    \/ KernelDeliver
    \/ \E t \in Threads : ThreadStep(t)

Spec == Init /\ [][Next]_vars

(* A step of a call in progress: everything but the start of a new call. *)
Progress(t) == th[t].pc # "idle" /\ ThreadStep(t)

(* Every thread that can take a step of its call in progress eventually does. *)
FairSpec == Spec /\ \A t \in Threads : WF_vars(Progress(t))

----------------------------------------------------------------------------
(* Vocabulary of the properties *)

(* Program counters at which the thread is inside a section of m_lock that   *)
(* touches the socket: the read path and the close.                          *)
ReadSectionPcs == {"wfm_select", "wfm_ioctl", "rm_read", "rqm_A", "rqm_B", "un_close"}

(* Inside the write section of sendMessage. *)
WriteSectionPcs == {"sm_write"}

(* About to lock for a read-path operation. *)
ReadLockPcs == {"wfm_lock", "rm_lock", "rqm_lock"}

DrainPcs == {"rqm_A", "rqm_B"}

(* Program counters of a call in progress whose step reads or writes         *)
(* m_socketFd or m_queueSize: the validity test of a queued send, the        *)
(* syscalls on the handle, the close.                                        *)
AccessPcs ==
    {"sm_check", "wfm_select", "wfm_ioctl", "rm_read", "rqm_A", "rqm_B", "sm_write",
     "scf_setsockopt", "opt_setsockopt", "un_close"}

(* The step with which thread t takes the mutex of a read-path operation. *)
ReadPathLock(t) ==
    waitForMessages_lock(t) \/ readMessage_lock(t) \/ readQueuedMessages_lock(t)

(* The kernel frame numbers of a sequence of messages. *)
FramesOf(ms) == [k \in 1..Len(ms) |-> ms[k].frame]

(* s lists consecutive frames of the kernel's delivery order. *)
IsRun(s) == \A k \in 1..(Len(s) - 1) : s[k + 1] = s[k] + 1

Completed(o) == last.thread # NoThread /\ last.call.op = o

----------------------------------------------------------------------------
(* C1: an I/O operation called on an Unbound or Closed driver issues no      *)
(* socket syscall and completes with InvalidSocket.                          *)
C1_InvalidSocketWhenNotBound ==
    /\ \A t \in Threads :
         (th[t].op \in IoOps /\ th[t].entryInvalid) => th[t].nsys = 0
    /\ (last.call.op \in IoOps /\ last.call.entryInvalid) =>
         (last.call.res = "InvalidSocket" /\ last.call.nsys = 0)

(* A readMessage on a driver closed after frames had arrived was refused. *)
C1_Witness ==
    /\ Completed("readMessage") /\ last.call.entryInvalid
    /\ last.call.res = "InvalidSocket"
    /\ delivered > 0 /\ ~fdOpen

C3_PathsNeverContend ==
    \A t \in Threads :
        /\ ~(mutex["m_lock"] = t /\ mutex["m_lockSend"] = t)
        /\ (th[t].pc \in ReadLockPcs /\ ~ENABLED ReadPathLock(t)) =>
             \E u \in Threads \ {t} : th[u].pc \in ReadSectionPcs \cup {"scf_setsockopt"}
        /\ (th[t].pc = "sm_lock" /\ ~ENABLED sendMessage_lock(t)) =>
             \E u \in Threads \ {t} : th[u].pc \in WriteSectionPcs

(* A sender is inside its write section while a reader takes m_lock freely. *)
C3_Witness ==
    \E t, u \in Threads :
        /\ th[t].pc = "sm_write" /\ mutex["m_lockSend"] = t
        /\ th[u].pc \in ReadLockPcs /\ ENABLED ReadPathLock(u)

(* C4: under fair scheduling every call in progress returns or raises; in    *)
(* particular no thread waits for a mutex forever.                           *)
C4_EveryCallCompletes ==
    \A t \in Threads : (th[t].pc # "idle") ~> (th[t].pc = "idle")

(* A counted drain has read a frame and goes on reading under the same hold. *)
C4_Witness ==
    \E t \in Threads :
        /\ th[t].pc = "rqm_A" /\ th[t].i > 0 /\ th[t].msgs # <<>>
        /\ mutex["m_lock"] = t

(* C5: while a drain is between its reads no other thread is inside a        *)
(* read-path section, the cached queue size keeps the value the drain        *)
(* started with, and the frames drained so far followed by the frames still  *)
(* queued are one contiguous run of the kernel queue.                        *)
C5_DrainAtomic ==
    \A t \in Threads :
        th[t].pc \in DrainPcs =>
            /\ \A u \in Threads \ {t} : th[u].pc \notin ReadSectionPcs
            /\ th[t].branch = "A" => m_queueSize = th[t].n0
            /\ IsRun(FramesOf(th[t].msgs) \o rxq)

(* A drain holds two frames while another reader waits for the mutex. *)
C5_Witness ==
    \E t, u \in Threads :
        /\ th[t].pc \in DrainPcs /\ Len(th[t].msgs) >= 2
        /\ th[u].pc \in ReadLockPcs \cup {"un_lock"}

(* C6: every access to m_socketFd or m_queueSize is made by a thread that    *)
(* holds the read-path mutex m_lock.                                         *)
C6_GuardedByReadLock ==
    \A t \in Threads : th[t].pc \in AccessPcs => mutex["m_lock"] = t

(* C7: the messages a drain returns are, in order, the frames at the head    *)
(* of the kernel queue: nothing duplicated, skipped or reordered, and the    *)
(* frames left in the queue follow the last one returned.                    *)
C7_KernelOrder ==
    (Completed("readQueuedMessages") /\ last.call.res = "ok") =>
        /\ IsRun(FramesOf(last.call.msgs) \o rxq)
        /\ Len(last.call.msgs) <= delivered

(* A drain returned both frames the kernel had delivered. *)
C7_Witness ==
    /\ Completed("readQueuedMessages") /\ last.call.res = "ok"
    /\ Len(last.call.msgs) >= 2

(* C8 as stated: a counted drain performs exactly as many reads as the       *)
(* cached queue size, and on success returns that many messages.             *)
C8_ExactlyCachedReads ==
    (Completed("readQueuedMessages") /\ last.call.branch = "A") =>
        /\ last.call.nreads = last.call.n0
        /\ last.call.res = "ok" => Len(last.call.msgs) = last.call.n0

(* C8, amended: a counted drain never performs more reads than the cached    *)
(* queue size; every read before the current one succeeded; a drain that     *)
(* returns has performed exactly that many reads and returns that many       *)
(* messages; a drain that raises stopped at its first failing read.          *)
C8_AtMostCachedReads ==
    /\ \A t \in Threads :
         th[t].pc = "rqm_A" =>
            /\ th[t].n0 = m_queueSize
            /\ th[t].nreads + th[t].i = th[t].n0
            /\ Len(th[t].msgs) = th[t].nreads
    /\ (Completed("readQueuedMessages") /\ last.call.branch = "A") =>
         /\ last.call.nreads <= last.call.n0
         /\ last.call.res = "ok" =>
              (last.call.nreads = last.call.n0 /\ Len(last.call.msgs) = last.call.n0)
         /\ last.call.res # "ok" => last.call.nreads + last.call.i <= last.call.n0 + 1

(* A counted drain of two cached frames returned two messages. *)
C8_Witness ==
    /\ Completed("readQueuedMessages") /\ last.call.branch = "A"
    /\ last.call.res = "ok" /\ last.call.n0 = 2 /\ Len(last.call.msgs) = 2

(* C9: a drain whose read reports "would block" ends successfully. *)
C9_WouldBlockAbsorbed ==
    (Completed("readQueuedMessages") /\ last.call.errno = "EAGAIN") =>
        last.call.res = "ok"

(* C10: once a byte-count query has failed the mode flag never returns to    *)
(* 'known'; the call whose query failed leaves the cached size 0; and a      *)
(* drain that starts in unknown mode takes the read-until-would-block branch.*)
C10_DowngradePermanent ==
    [][ /\ ~m_canReadQueueSize => ~m_canReadQueueSize'
        /\ (last'.call.op = "waitForMessages" /\ last'.call.retCode # 0) =>
              (m_queueSize' = 0 /\ ~m_canReadQueueSize')
        /\ \A t \in Threads :
              (th[t].pc = "rqm_lock" /\ th'[t].pc # "rqm_lock" /\ ~m_canReadQueueSize) =>
                  (th'[t].pc = "rqm_B" /\ th'[t].branch = "B") ]_vars

(* In unknown mode a later byte-count query succeeded and reported frames. *)
C10_Witness ==
    /\ Completed("waitForMessages") /\ last.call.retCode = 0
    /\ ~m_canReadQueueSize /\ m_queueSize > 0

----------------------------------------------------------------------------
(* Function-level runs: one statement sequence of the driver applied to     *)
(* inputs drawn from bounded sets, on a Bound driver used by one thread.    *)

MaxBytes == 48

(* The driver after a successful construction, before any call. *)
FreshDriver ==
    /\ m_socketFd = SockFd
    /\ fdOpen = TRUE
    /\ m_queueSize = 0
    /\ m_canReadQueueSize = TRUE
    /\ m_collectTelemetry = FALSE
    /\ mutex = [m_lock |-> NoThread, m_lockSend |-> NoThread]
    /\ rxq = <<>>
    /\ delivered = 0
    /\ th = [t \in Threads |-> IdleThread]
    /\ last = NoCall
    /\ calls = 0

FnInit ==
    /\ FreshDriver
    /\ eval = NoEval
    /\ life = NoLife

(* waitForMessages, lines 113-122, for every outcome of ioctl(FIONREAD):   *)
(* the return code and the byte count the kernel stores.                   *)
waitForMessages_query ==
    /\ \E ret \in {0, -1}, b \in 0..MaxBytes :
         LET q == [ret |-> ret, bytes |-> IF ret = 0 THEN b ELSE 0]
         IN /\ m_queueSize' = QueueSizeAfterQuery(q)
            /\ m_canReadQueueSize' = CanReadAfterQuery(q, m_canReadQueueSize)
            /\ eval' = [fn |-> "waitForMessages_query", arg |-> q]
    /\ UNCHANGED <<m_socketFd, m_collectTelemetry, mutex, fdOpen, rxq, delivered,
                   th, last, calls, life>>

(* Identifiers and payloads of the messages the function-level runs send. *)
CAN_EFF_MASK == 536870911
SendAddresses == {0, 291, CAN_SFF_MASK, CAN_SFF_MASK + 1, CAN_EFF_MASK}
SendIds == {canid_t(eff, rtr, err, a) : eff \in BOOLEAN, rtr \in BOOLEAN,
                                        err \in {FALSE}, a \in SendAddresses}
SendPayloads == {<<>>, <<222, 173>>, <<1, 2, 3, 4, 5, 6, 7, 8>>}

FnMessages ==
    {MessageFromId(id, p) : id \in SendIds, p \in SendPayloads}
    \cup {MessageFromFrame(can_frame(id, Len(p), p \o [k \in 1..(8 - Len(p)) |-> 0])) :
             id \in SendIds, p \in SendPayloads}

(* sendMessage, lines 210-224, for a message that passes the length test:   *)
(* the frame handed to write(), and the message after the call.             *)
sendMessage_frame ==
    /\ \E m \in FnMessages, forceExtended \in BOOLEAN :
         /\ ~PayloadTooLarge(m)
         /\ eval' = [fn |-> "sendMessage_frame",
                     arg |-> [message |-> m, forceExtended |-> forceExtended],
                     out |-> [frame |-> OutgoingFrame(m, forceExtended), message |-> m]]
    /\ UNCHANGED <<m_socketFd, m_queueSize, m_canReadQueueSize, m_collectTelemetry,
                   mutex, fdOpen, rxq, delivered, th, last, calls, life>>

FnNext ==
    \/ waitForMessages_query
    \/ sendMessage_frame

FnSpec == FnInit /\ [][FnNext]_vars

(* a / b rounded up, for a >= 0 and b > 0. *)
CeilDiv(a, b) == (a + b - 1) \div b

(* C11: after a byte-count query that succeeded with b bytes queued, the    *)
(* cached queue size is b / 16 rounded up.                                  *)
C11_QueueSizeRoundsUp ==
    (eval.fn = "waitForMessages_query" /\ eval.arg.ret = 0) =>
        m_queueSize = CeilDiv(eval.arg.bytes, CanFrameSize)

(* C12: a waitForMessages call on a Bound driver makes one select() and one *)
(* byte-count query and never raises; it returns true exactly when select() *)
(* reported the socket readable, which it does only with a frame queued; a  *)
(* timed-out wait returns false; and the cached queue size is the one the   *)
(* query of this very call produced, whatever the call returns.             *)
C12_OneWaitThenRefresh ==
    (Completed("waitForMessages") /\ ~last.call.entryInvalid) =>
        /\ last.call.res = "ok"
        /\ last.call.nsys = 2
        /\ last.call.ready <=> (last.call.fds > 0)
        /\ last.call.ready => rxq # <<>>
        /\ last.call.fds = 0 => ~last.call.ready
        /\ m_queueSize = IF last.call.retCode = 0 THEN Len(rxq) ELSE 0

(* A wait timed out and returned false, yet cached the frame that arrived   *)
(* before its byte-count query.                                             *)
C12_Witness ==
    /\ Completed("waitForMessages") /\ ~last.call.entryInvalid
    /\ last.call.fds = 0 /\ ~last.call.ready
    /\ last.call.retCode = 0 /\ m_queueSize = 1

(* C13: a readMessage call on a Bound driver issues exactly one read(); it  *)
(* raises IoFailure when the read fails for a reason other than "no data",  *)
(* and otherwise returns one message.                                       *)
C13_OneReadOneMessage ==
    (Completed("readMessage") /\ ~last.call.entryInvalid) =>
        /\ last.call.nreads = 1
        /\ last.call.errno \notin {"none", "EAGAIN"} => last.call.res = "IoFailure"
        /\ last.call.errno \in {"none", "EAGAIN"} =>
              (last.call.res = "ok" /\ Len(last.call.msgs) = 1)

(* Program counters whose step reads a frame. *)
ReadPcs == {"rm_read", "rqm_A", "rqm_B"}

(* The record of thread t's call after a step of t. *)
After(t) == IF th'[t].pc = "idle" THEN last'.call ELSE th'[t]

(* C14: in readMessage and in both branches of readQueuedMessages, a step   *)
(* that adds a message to the result stamps it with the kernel receive      *)
(* timestamp of its frame when telemetry is enabled, after one timestamp    *)
(* query, and with zero when it is disabled, with no timestamp query; with  *)
(* telemetry enabled a frame that was read but produced no message ends the *)
(* call with IoFailure.                                                     *)
C14_StampedAlike ==
    [][ \A t \in Threads :
          (th[t].pc \in ReadPcs /\ th'[t] # th[t]) =>
             LET c == After(t)
                 added == Len(c.msgs) > Len(th[t].msgs)
                 newest == c.msgs[Len(c.msgs)]
             IN /\ added => (rxq # <<>> /\ newest.frame = Head(rxq))
                /\ (added /\ m_collectTelemetry) =>
                      (newest.ts = KernelStamp(Head(rxq)) /\ c.nsys = th[t].nsys + 2)
                /\ (added /\ ~m_collectTelemetry) =>
                      (newest.ts = 0 /\ c.nsys = th[t].nsys + 1)
                /\ ~m_collectTelemetry => c.nsys <= th[t].nsys + 1
                /\ (m_collectTelemetry /\ rxq' # rxq /\ ~added) =>
                      (c.res = "IoFailure" /\ c.nsys = th[t].nsys + 2) ]_vars

(* With telemetry enabled a drain in unknown mode returned a stamped message. *)
C14_Witness ==
    /\ Completed("readQueuedMessages") /\ last.call.branch = "B"
    /\ last.call.res = "ok" /\ m_collectTelemetry
    /\ Len(last.call.msgs) >= 1
    /\ last.call.msgs[1].ts = KernelStamp(last.call.msgs[1].frame)

(* C15: a sendMessage call on a Bound driver with a payload of more than 8  *)
(* bytes ends with PayloadTooLarge; the call has issued no syscall and      *)
(* handed no frame to write(), and the step that raises leaves the driver   *)
(* members and the socket as they were and both mutexes free of the caller. *)
C15_PayloadTooLargeBeforeWrite ==
    [][ \A t \in Threads :
          (/\ th[t].pc = "sm_write" /\ th'[t].pc = "idle"
           /\ th[t].op = "sendMessage"
           /\ Head(th[t].inq).frame.dlc > CAN_MAX_DATA_LENGTH) =>
             /\ last'.call.res = "PayloadTooLarge"
             /\ last'.call.nsys = 0 /\ last'.call.sent = <<>>
             /\ UNCHANGED <<m_socketFd, m_queueSize, m_canReadQueueSize,
                            m_collectTelemetry, fdOpen, rxq, delivered>>
             /\ \A m \in DOMAIN mutex : mutex'[m] # t ]_vars

(* A 9-byte message was refused on a Bound driver with a frame queued. *)
C15_Witness ==
    /\ Completed("sendMessage") /\ ~last.call.entryInvalid
    /\ Head(last.call.inq).frame.dlc = CAN_MAX_DATA_LENGTH + 1
    /\ last.call.res = "PayloadTooLarge"
    /\ fdOpen /\ rxq # <<>>

(* C16: the frame handed to write() carries the extended-frame flag when    *)
(* forceExtended is true or the identifier's address exceeds 0x7FF, and     *)
(* otherwise the flag of the message's raw frame; its address bits, its     *)
(* other flags, its length and its data are those of the raw frame, and the *)
(* message is what it was before the call.                                  *)
C16_ExtendedFlagOnly ==
    eval.fn = "sendMessage_frame" =>
        LET m == eval.arg.message
            f == eval.out.frame
            wants == eval.arg.forceExtended \/ m.canId.addr > CAN_SFF_MASK
        IN /\ wants => f.can_id.eff
           /\ ~wants => (f.can_id.eff <=> m.frame.can_id.eff)
           /\ f.can_id.addr = m.frame.can_id.addr
           /\ f.can_id.rtr = m.frame.can_id.rtr
           /\ f.can_id.err = m.frame.can_id.err
           /\ f.dlc = m.frame.dlc
           /\ f.data = m.frame.data
           /\ eval.out.message = m

(* An unforced send of identifier 0x800, built without the flag, got it. *)
C16_Witness ==
    /\ eval.fn = "sendMessage_frame"
    /\ ~eval.arg.forceExtended
    /\ eval.arg.message.canId.addr = CAN_SFF_MASK + 1
    /\ ~eval.arg.message.frame.can_id.eff
    /\ eval.out.frame.can_id.eff

(* C17: a sendMessage call that reaches write() issues exactly one write(); *)
(* it returns only when the whole frame was written, and then returns the   *)
(* frame size; a failed or short write ends the call with IoFailure.        *)
C17_ShortWriteFails ==
    (/\ Completed("sendMessage") /\ ~last.call.entryInvalid
     /\ Head(last.call.inq).frame.dlc <= CAN_MAX_DATA_LENGTH) =>
        /\ last.call.nsys = 1
        /\ last.call.res \in {"ok", "IoFailure"}
        /\ last.call.res = "ok" => last.call.ret = CanFrameSize

----------------------------------------------------------------------------
(* Batch sends: thread 1 sends queues of up to MaxBatch messages while      *)
(* thread 2 may close the socket.                                           *)

MaxBatch == 3

(* Three distinguishable messages; the third is too long to send. *)
BatchMessages ==
    {MessageFromId(canid_t(FALSE, FALSE, FALSE, 291), <<1>>),
     MessageFromId(canid_t(FALSE, FALSE, FALSE, CAN_SFF_MASK + 1), <<2>>),
     MessageFromFrame(can_frame(canid_t(FALSE, FALSE, FALSE, 292),
                                CAN_MAX_DATA_LENGTH + 1, <<3, 3, 3, 3, 3, 3, 3, 3>>))}

sendMessageQueue_batch ==
    sendMessageQueue_start(1, SeqsUpTo(BatchMessages, MaxBatch))

SendNext ==
    \/ sendMessageQueue_batch
    \/ sendMessage_check(1)
    \/ sendMessage_lock(1)
    \/ sendMessage_write(1)
    \/ uninitialiseSocketCan_call(2)
    \/ uninitialiseSocketCan_lock(2)
    \/ uninitialiseSocketCan_close(2)

SendSpec == FnInit /\ [][SendNext]_vars

(* C18: every step of a sendMessageQueue call either sends the message at   *)
(* the front of the queue, appending its frame to the frames written so     *)
(* far, adding the bytes written to the total and removing that message     *)
(* alone, or fails and ends the call with that failure, the failed message  *)
(* and all later ones still queued and nothing more written; the call       *)
(* returns the total only once the queue is empty.                          *)
C18_FifoUntilFirstFailure ==
    [][ \A t \in Threads :
          (th[t].op = "sendMessageQueue" /\ th'[t] # th[t]) =>
             LET c == After(t)
                 sends == th[t].pc = "sm_write" /\ c.res \in {"none", "ok"}
             IN /\ c.res \in {"none", "ok", "InvalidSocket", "PayloadTooLarge", "IoFailure"}
                /\ sends =>
                      /\ c.sent = Append(th[t].sent, OutgoingFrame(Head(th[t].inq), th[t].ext))
                      /\ c.inq = Tail(th[t].inq)
                      /\ c.ret - th[t].ret \in {w \in WriteResults(m_socketFd) : w >= 0}
                /\ ~sends =>
                      (c.sent = th[t].sent /\ c.inq = th[t].inq /\ c.ret = th[t].ret)
                /\ c.res = "ok" => c.inq = <<>>
                /\ c.res = "none" => c.inq # <<>>
                /\ c.res \notin {"none", "ok"} => th'[t].pc = "idle" ]_vars

(* The first message went out, the second was refused, the third was never  *)
(* attempted.                                                               *)
C18_Witness ==
    /\ Completed("sendMessageQueue") /\ last.call.res = "PayloadTooLarge"
    /\ Len(last.call.sent) = 1 /\ Len(last.call.inq) = 2
    /\ last.call.sent[1].can_id.addr = 291
    /\ last.call.inq[2].canId.addr = CAN_SFF_MASK + 1

----------------------------------------------------------------------------
(* Construction: one thread constructs a driver object.  The object under   *)
(* construction is private to that thread, so m_lock is never contended.    *)
(* `life` holds the constructor's arguments, its position, the syscalls it  *)
(* issued (log) with their results (rets), the filter list it handed to     *)
(* setsockopt(), and what the caller ends up with; then the filter list in  *)
(* force on the socket (inForce), the latest call on the constructed driver *)
(* (op, arg, opRes) and the number of close() calls that released the       *)
(* descriptor (closes).                                                     *)

(* A filtermap_t maps identifiers to masks. *)
FilterIds == {0, 291}
FilterMasks == {0, CAN_SFF_MASK}
FilterMaps == UNION {[S -> FilterMasks] : S \in SUBSET FilterIds}

(* The three constructors. *)
Constructors == {"iface", "mask", "filters"}

(* m_canFilterMask as the delegating constructors pass it on: no filter     *)
(* argument gives mask 0 for id 0, a mask gives that mask for id 0.         *)
CtorFilters(ctor, filterMask, filters) ==
    CASE ctor = "iface" -> [id \in {0} |-> 0]
      [] ctor = "mask" -> [id \in {0} |-> filterMask]
      [] ctor = "filters" -> filters

can_filter(id, mask) == [can_id |-> id, can_mask |-> mask]

(* The orders in which the range-for may visit an unordered_map's keys. *)
Orders(S) ==
    {s \in [1..Cardinality(S) -> S] : \A i, j \in 1..Cardinality(S) : s[i] = s[j] => i = j}

(* `canFilters` after the loop of setCanFilters: one entry per map entry. *)
FilterList(filters, order) ==
    [k \in 1..Len(order) |-> can_filter(order[k], filters[order[k]])]

(* The successor of each step of initialiseSocketCan. *)
StepAfter_BindBeforeFilters(pc) ==
    CASE pc = "socket" -> "ioctl"
      [] pc = "ioctl" -> "fcntl"
      [] pc = "fcntl" -> "bind"
      [] pc = "bind" -> "setCanFilters"
      [] pc = "setCanFilters" -> "done"

StepAfter(pc) ==
    CASE pc = "socket" -> "ioctl"
      [] pc = "ioctl" -> "fcntl"
      [] pc = "fcntl" -> "setCanFilters"
      [] pc = "setCanFilters" -> "bind"
      [] pc = "bind" -> "done"

(* One step issued the syscalls `names` with results `rets`; it throws      *)
(* CanInitException if `failed`, else goes on; the constructor returns      *)
(* after the last step.                                                     *)
InitStep(names, rets, failed, rec) ==
    LET to == StepAfter(life.pc)
        logged == [rec EXCEPT !.log = @ \o names, !.rets = @ \o rets]
    IN life' = IF failed
                  THEN [logged EXCEPT !.pc = "thrown", !.res = "InitializationFailure"]
                  ELSE [logged EXCEPT !.pc = to,
                                      !.res = IF to = "done" THEN "constructed" ELSE @,
                                      !.instance = (to = "done")]

(* An object whose constructor has not run: the member initialisers of      *)
(* CanDriver.hpp.                                                           *)
LifeInit ==
    /\ m_socketFd = -1
    /\ fdOpen = FALSE
    /\ m_queueSize = 0
    /\ m_canReadQueueSize = TRUE
    /\ m_collectTelemetry = FALSE
    /\ mutex = [m_lock |-> NoThread, m_lockSend |-> NoThread]
    /\ rxq = <<>>
    /\ delivered = 0
    /\ th = [t \in Threads |-> IdleThread]
    /\ last = NoCall
    /\ calls = 0
    /\ eval = NoEval
    /\ life = NoLife

(* Lines 80-88: the constructors store their arguments. *)
CanDriver_construct ==
    /\ life.pc = "none"
    /\ \E ctor \in Constructors, ifaceExists \in BOOLEAN,
          filterMask \in FilterMasks, filters \in FilterMaps :
         /\ ctor # "mask" => filterMask = 0
         /\ ctor # "filters" => DOMAIN filters = {}
         /\ life' = [pc |-> "socket", ctor |-> ctor, ifaceExists |-> ifaceExists,
                     m_canFilterMask |-> CtorFilters(ctor, filterMask, filters),
                     log |-> <<>>, rets |-> <<>>,
                     filtersSet |-> FALSE, canFilters |-> <<>>,
                     res |-> "none", instance |-> FALSE,
                     inForce |-> <<>>, op |-> "none", arg |-> <<>>, opRes |-> "none",
                     closes |-> 0]
    /\ UNCHANGED <<m_socketFd, m_queueSize, m_canReadQueueSize, m_collectTelemetry, mutex,
                   fdOpen, rxq, delivered, th, last, calls, eval>>

(* Lines 493-503. *)
initialiseSocketCan_socket ==
    /\ life.pc = "socket"
    /\ \E fd \in {SockFd, -1} :
         /\ m_socketFd' = fd
         /\ fdOpen' = (fd # -1)
         /\ InitStep(<<"socket">>, <<fd>>, fd = -1, life)
    /\ UNCHANGED <<m_queueSize, m_canReadQueueSize, m_collectTelemetry, mutex,
                   rxq, delivered, th, last, calls, eval>>

(* Lines 505-516: SIOCGIFINDEX fails for a name no interface has. *)
initialiseSocketCan_ioctl ==
    /\ life.pc = "ioctl"
    /\ \E r \in IF life.ifaceExists THEN OptionResults(m_socketFd) ELSE {-1} :
         InitStep(<<"ioctl">>, <<r>>, r < 0, life)
    /\ UNCHANGED <<m_socketFd, m_queueSize, m_canReadQueueSize, m_collectTelemetry, mutex,
                   fdOpen, rxq, delivered, th, last, calls, eval>>

(* Lines 518-528: F_GETFL on the descriptor socket() just returned yields   *)
(* its flags; only the result of F_SETFL is tested.                         *)
initialiseSocketCan_fcntl ==
    /\ life.pc = "fcntl"
    /\ \E r \in OptionResults(m_socketFd) :
         InitStep(<<"fcntl_getfl", "fcntl_setfl">>, <<0, r>>, r < 0, life)
    /\ UNCHANGED <<m_socketFd, m_queueSize, m_canReadQueueSize, m_collectTelemetry, mutex,
                   fdOpen, rxq, delivered, th, last, calls, eval>>

(* Line 533 with lines 405-425: the validity test passes (socket() gave a   *)
(* descriptor), m_lock is free, the list is built from m_canFilterMask and  *)
(* handed to setsockopt() with its length; the lock is released on return   *)
(* and on throw.                                                            *)
initialiseSocketCan_setCanFilters ==
    /\ life.pc = "setCanFilters"
    /\ ~InvalidSocket(m_socketFd)
    /\ mutex["m_lock"] = NoThread
    /\ \E order \in Orders(DOMAIN life.m_canFilterMask), r \in OptionResults(m_socketFd) :
         InitStep(<<"setsockopt">>, <<r>>, r = -1,
                  [life EXCEPT !.canFilters = FilterList(life.m_canFilterMask, order),
                               !.filtersSet = (r = 0),
                               !.inForce = IF r = 0
                                           THEN FilterList(life.m_canFilterMask, order)
                                           ELSE @])
    /\ UNCHANGED <<m_socketFd, m_queueSize, m_canReadQueueSize, m_collectTelemetry, mutex,
                   fdOpen, rxq, delivered, th, last, calls, eval>>

(* Lines 535-543. *)
initialiseSocketCan_bind ==
    /\ life.pc = "bind"
    /\ \E r \in OptionResults(m_socketFd) :
         InitStep(<<"bind">>, <<r>>, r < 0, life)
    /\ UNCHANGED <<m_socketFd, m_queueSize, m_canReadQueueSize, m_collectTelemetry, mutex,
                   fdOpen, rxq, delivered, th, last, calls, eval>>

(* getFilterMask() (CanDriver.hpp line 102) returns m_canFilterMask. *)
getFilterMask == life.m_canFilterMask

(* setCanFilterMask(mask, filterId) is setCanFilters({{filterId, mask}}). *)
FilterCalls ==
    {[op |-> "setCanFilters", filters |-> f] : f \in FilterMaps}
        \cup {[op |-> "setCanFilterMask", filters |-> [i \in {id} |-> mask]] :
                  id \in FilterIds, mask \in FilterMasks}

(* Lines 398-425 on the constructed driver: the validity test, m_lock (free *)
(* here), the list built from the argument, setsockopt().  No statement     *)
(* assigns m_canFilterMask.                                                 *)
setCanFilters_apply ==
    /\ life.pc \in {"done", "unbound", "closed"}
    /\ mutex["m_lock"] = NoThread
    /\ \E c \in FilterCalls :
         IF InvalidSocket(m_socketFd)
         THEN life' = [life EXCEPT !.op = c.op, !.arg = c.filters, !.opRes = "InvalidSocket"]
         ELSE \E order \in Orders(DOMAIN c.filters), r \in OptionResults(m_socketFd) :
                life' = [life EXCEPT
                            !.op = c.op, !.arg = c.filters,
                            !.opRes = IF r = -1 THEN "InitializationFailure" ELSE "ok",
                            !.inForce = IF r = -1 THEN @ ELSE FilterList(c.filters, order)]
    /\ UNCHANGED <<m_socketFd, m_queueSize, m_canReadQueueSize, m_collectTelemetry, mutex,
                   fdOpen, rxq, delivered, th, last, calls, eval>>

(* CanDriver.hpp line 94, `CanDriver() = default;`: the member initialisers *)
(* only (m_socketFd{-1}, an empty m_canFilterMask); no socket is opened.    *)
CanDriver_default ==
    /\ life.pc = "none"
    /\ life' = [pc |-> "unbound", ctor |-> "default", ifaceExists |-> FALSE,
                m_canFilterMask |-> [id \in {} |-> 0],
                log |-> <<>>, rets |-> <<>>,
                filtersSet |-> FALSE, canFilters |-> <<>>,
                res |-> "constructed", instance |-> TRUE,
                inForce |-> <<>>, op |-> "none", arg |-> <<>>, opRes |-> "none",
                closes |-> 0]
    /\ UNCHANGED <<m_socketFd, m_queueSize, m_canReadQueueSize, m_collectTelemetry, mutex,
                   fdOpen, rxq, delivered, th, last, calls, eval>>

(* Calls of close() a derived class may cause before the destructor runs. *)
MaxCloses == 2

(* The body of uninitialiseSocketCan (lines 549-565) on the object `life`   *)
(* describes, called as `op`: m_lock is free; CanCloseException for a       *)
(* handle <= 0 and for a close() that returns -1, and then the object is at *)
(* `failed`; else m_socketFd = -1 and the object is at `closed`.            *)
Uninitialise(op, closed, failed) ==
    /\ mutex["m_lock"] = NoThread
    /\ IF CloseRefused(m_socketFd)
       THEN /\ life' = [life EXCEPT !.pc = failed, !.op = op, !.arg = <<>>,
                                    !.opRes = "CloseFailure"]
            /\ UNCHANGED <<m_socketFd, fdOpen>>
       ELSE \E c \in CloseResults(m_socketFd) :
              /\ fdOpen' = c.open
              /\ IF c.ret = -1
                 THEN /\ life' = [life EXCEPT !.pc = failed, !.op = op, !.arg = <<>>,
                                              !.opRes = "CloseFailure", !.closes = @ + 1]
                      /\ UNCHANGED m_socketFd
                 ELSE /\ life' = [life EXCEPT !.pc = closed, !.op = op, !.arg = <<>>,
                                              !.opRes = "ok", !.closes = @ + 1]
                      /\ m_socketFd' = -1
    /\ UNCHANGED <<m_queueSize, m_canReadQueueSize, m_collectTelemetry, mutex,
                   rxq, delivered, th, last, calls, eval>>

(* uninitialiseSocketCan is protected (CanDriver.hpp line 156): a derived   *)
(* class may call it on a live driver.                                      *)
uninitialiseSocketCan_derived ==
    /\ life.pc \in {"done", "unbound", "closed"}
    /\ life.closes < MaxCloses
    /\ Uninitialise("uninitialiseSocketCan", "closed", life.pc)

(* CanDriver.hpp line 95: `virtual ~CanDriver() { uninitialiseSocketCan(); }`. *)
(* A destructor is noexcept: an exception that leaves it ends the program.  *)
CanDriver_destroy ==
    /\ life.pc \in {"done", "unbound", "closed"}
    /\ Uninitialise("~CanDriver", "destroyed", "terminated")

LifeNext ==
    \/ CanDriver_default
    \/ uninitialiseSocketCan_derived
    \/ CanDriver_destroy
    \/ setCanFilters_apply
    \/ CanDriver_construct
    \/ initialiseSocketCan_socket
    \/ initialiseSocketCan_ioctl
    \/ initialiseSocketCan_fcntl
    \/ initialiseSocketCan_setCanFilters
    \/ initialiseSocketCan_bind

LifecycleSpec == LifeInit /\ [][LifeNext]_vars

(* The syscalls of a complete initialisation, in order. *)
InitOrder == <<"socket", "ioctl", "fcntl_getfl", "fcntl_setfl", "setsockopt", "bind">>

(* The syscalls whose failure is a failure of their step. *)
StepFailed(k) == life.log[k] # "fcntl_getfl" /\ life.rets[k] < 0

(* C19: the syscalls a constructor has issued are always an initial part of *)
(* socket, ioctl, fcntl, fcntl, setsockopt, bind; none follows one that     *)
(* failed; the constructor ends with InitializationFailure exactly when the *)
(* latest one failed, then without a driver instance, and it yields an      *)
(* instance only after all of them succeeded; for an interface name that    *)
(* does not exist it fails at the second and issues no more.                *)
C19_InitOrderStopsAtFailure ==
    (life.pc # "none" /\ life.ctor \in Constructors) =>
        LET n == Len(life.log) IN
        /\ n <= Len(InitOrder) /\ life.log = SubSeq(InitOrder, 1, n)
        /\ \A k \in 1..(n - 1) : ~StepFailed(k)
        /\ life.res = "InitializationFailure" <=> (n >= 1 /\ StepFailed(n))
        /\ life.res = "constructed" <=> (n = Len(InitOrder) /\ ~StepFailed(n))
        /\ life.instance <=> life.res = "constructed"
        /\ life.res \in {"none", "constructed", "InitializationFailure"}
        /\ (~life.ifaceExists /\ n >= 2) => (n = 2 /\ life.res = "InitializationFailure")

(* A constructor for a missing interface failed at the index lookup. *)
C19_Witness ==
    /\ life.pc = "thrown" /\ ~life.ifaceExists
    /\ life.log = <<"socket", "ioctl">> /\ life.res = "InitializationFailure"
    /\ ~life.instance

(* C20: once the filters are set on the socket, the list set is never       *)
(* empty, and it is the single entry (id 0, mask 0) if the driver was       *)
(* constructed without filters or with an empty filter mapping.             *)
C20_DefaultAcceptAll ==
    (life.pc # "none" /\ life.filtersSet) =>
        /\ life.canFilters # <<>>
        /\ (life.ctor = "iface" \/ DOMAIN life.m_canFilterMask = {}) =>
              life.canFilters = <<can_filter(0, 0)>>

----------------------------------------------------------------------------
(* Closing *)

(* C21: an uninitialiseSocketCan that issued close() leaves the handle       *)
(* invalid, whether close() succeeded or not.                                *)
C21_ClosedWhateverCloseReturns ==
    (Completed("uninitialiseSocketCan") /\ last.call.nsys = 1) =>
        InvalidSocket(m_socketFd)

(* C22: a handle that is invalid stays invalid and a socket that is closed   *)
(* stays closed; an uninitialiseSocketCan that finds the handle invalid      *)
(* ends with CloseFailure and issues no syscall; one that returns has        *)
(* closed the open socket and invalidated the handle, so close() succeeds    *)
(* at most once.                                                             *)
C22_ClosedIsTerminal ==
    [][ /\ InvalidSocket(m_socketFd) => InvalidSocket(m_socketFd')
        /\ ~fdOpen => ~fdOpen'
        /\ \A t \in Threads :
             (th[t].pc = "un_close" /\ th'[t] # th[t]) =>
                /\ InvalidSocket(m_socketFd) =>
                      /\ last'.call.res = "CloseFailure" /\ last'.call.nsys = 0
                      /\ UNCHANGED <<m_socketFd, fdOpen>>
                /\ last'.call.res = "ok" =>
                      /\ fdOpen /\ ~fdOpen'
                      /\ ~InvalidSocket(m_socketFd) /\ InvalidSocket(m_socketFd')
                      /\ last'.call.nsys = 1 ]_vars

(* A second uninitialiseSocketCan, after frames had arrived and the socket   *)
(* had been closed, was refused without a syscall.                           *)
C22_Witness ==
    /\ Completed("uninitialiseSocketCan") /\ last.call.res = "CloseFailure"
    /\ last.call.nsys = 0 /\ InvalidSocket(m_socketFd)
    /\ delivered > 0 /\ ~fdOpen

----------------------------------------------------------------------------
(* Identifiers: the functions of CanId applied to 32-bit values.  A value   *)
(* is held as its three flag bits and its 29 address bits; an integer of a  *)
(* narrower or signed type is held as a number.                             *)

(* The bits of the address portion that name the error classes. *)
CAN_ERR_TX_TIMEOUT == 1
CAN_ERR_LOSTARB == 2
CAN_ERR_CRTL == 4
CAN_ERR_PROT == 8
CAN_ERR_TRX == 16
CAN_ERR_ACK == 32
CAN_ERR_BUSOFF == 64
CAN_ERR_BUSERROR == 128
CAN_ERR_RESTARTED == 256
CAN_ERR_CNT == 512

(* 2^16, 2^29 and 2^30: the widths of the conversions. *)
Two16 == 65536
Two29 == CAN_ERR_MASK + 1
Two30 == 2 * Two29

(* `static_cast<canid_t>(n)` for a signed integer n of at most 32 bits:     *)
(* the value modulo 2^32.                                                   *)
FromInt(n) ==
    LET low31 == IF n >= 0 THEN n ELSE (n + 2147483647) + 1
    IN canid_t(n < 0, low31 >= Two30, (low31 \div Two29) % 2 = 1, low31 % Two29)

(* The two's-complement reading of 16 bits. *)
Signed16(b) == IF b >= Two16 \div 2 THEN b - Two16 ELSE b

(* `m_identifier & mask` for a mask of one bit within the address portion. *)
HasBit(x, mask) == (x.addr \div mask) % 2 = 1

(* Unsigned order of two 32-bit values. *)
Top(x) == (IF x.eff THEN 4 ELSE 0) + (IF x.rtr THEN 2 ELSE 0) + (IF x.err THEN 1 ELSE 0)
Less(a, b) == Top(a) < Top(b) \/ (Top(a) = Top(b) /\ a.addr < b.addr)

(* CanId(v), line 81: the object holds v as m_identifier and is written as  *)
(* that value.                                                              *)
CanId(v) == v

(* operator* and the conversion operators of CanId.hpp lines 92-103. *)
OperatorDeref(id) == id

OperatorUint32_KeepsErrFlag(id) ==
    canid_t(FALSE, FALSE, id.err, id.addr)

OperatorUint32(id) == MaskedId(id)
OperatorInt32(id) == MaskedId(id).addr
OperatorUint16(id) == (id.addr % Two16) % Two29
OperatorInt16(id) ==
    Signed16((Signed16(id.addr % Two16) % Two29) % Two16)

(* isValidIdentifier and the flag tests, on `static_cast<canid_t>(value)`. *)
isValidIdentifier_AddressOnly(x) == x.addr <= CAN_EFF_MASK

isValidIdentifier(x) == ~Exceeds(x, CAN_EFF_MASK)
isErrorFrame(x) == x.err

isRemoteTransmissionRequest_ErrBit(x) == x.err

isRemoteTransmissionRequest(x) == x.rtr
isExtendedFrame(x) == x.eff

(* The getters and the ten sub-error predicates, lines 290-308. *)
hasErrorFrameFlag(id) == isErrorFrame(id)
hasRtrFrameFlag(id) == isRemoteTransmissionRequest(id)
isStandardFrameId(id) == ~isExtendedFrame(id)
isExtendedFrameId(id) == isExtendedFrame(id)
SubError(id, mask) == hasErrorFrameFlag(id) /\ HasBit(id, mask)

Classification(id) ==
    [hasErrorFrameFlag |-> hasErrorFrameFlag(id),
     hasRtrFrameFlag |-> hasRtrFrameFlag(id),
     isStandardFrameId |-> isStandardFrameId(id),
     isExtendedFrameId |-> isExtendedFrameId(id),
     hasBusError |-> SubError(id, CAN_ERR_BUSERROR),
     hasBusOffError |-> SubError(id, CAN_ERR_BUSOFF),
     hasControllerProblem |-> SubError(id, CAN_ERR_CRTL),
     hasControllerRestarted |-> SubError(id, CAN_ERR_RESTARTED),
     hasErrorCounter |-> SubError(id, CAN_ERR_CNT),
     hasLostArbitration |-> SubError(id, CAN_ERR_LOSTARB),
     hasProtocolViolation |-> SubError(id, CAN_ERR_PROT),
     hasTransceiverStatus |-> SubError(id, CAN_ERR_TRX),
     missingAckOnTransmit |-> SubError(id, CAN_ERR_ACK),
     isTxTimeout |-> SubError(id, CAN_ERR_TX_TIMEOUT)]

(* The comparison operators with an integer, lines 142-160: `<` and `>`     *)
(* put the argument on the left of the comparison.                          *)
Comparison(id, x) ==
    [lt |-> Less(x, id),
     gt |-> Less(id, x),
     le |-> ~Less(x, id),
     ge |-> ~Less(id, x),
     eq |-> id = x,
     ne |-> id # x]

(* The 32-bit values the functions are applied to. *)
IdAddresses ==
    {0, 1, 291, CAN_SFF_MASK, CAN_SFF_MASK + 1, 2748, 22136, 32768, Two16 - 1, Two16,
     1193046, 305419896, CAN_EFF_MASK}
    \cup {CAN_ERR_TX_TIMEOUT, CAN_ERR_LOSTARB, CAN_ERR_CRTL, CAN_ERR_PROT, CAN_ERR_TRX,
          CAN_ERR_ACK, CAN_ERR_BUSOFF, CAN_ERR_BUSERROR, CAN_ERR_RESTARTED, CAN_ERR_CNT,
          2 * CAN_ERR_CNT - 1}
IdValues == {canid_t(eff, rtr, err, a) : eff \in BOOLEAN, rtr \in BOOLEAN,
                                         err \in BOOLEAN, a \in IdAddresses}
CompareValues == {canid_t(eff, FALSE, FALSE, a) : eff \in BOOLEAN, a \in {0, 291, 292, CAN_EFF_MASK}}

(* How a value reaches isValidIdentifier: as the integer itself, as the     *)
(* CanId built from it (converted by operator canid_t), as the raw value of *)
(* that CanId, or through a cast of that CanId to an integer type.          *)
Passings == {"value", "CanId", "raw", "int32", "uint32", "int16", "uint16"}

Passed(v, how) ==
    CASE how = "value" -> v
      [] how = "CanId" -> OperatorUint32(CanId(v))
      [] how = "raw" -> OperatorDeref(CanId(v))
      [] how = "int32" -> FromInt(OperatorInt32(CanId(v)))
      [] how = "uint32" -> OperatorUint32(CanId(v))
      [] how = "int16" -> FromInt(OperatorInt16(CanId(v)))
      [] how = "uint16" -> FromInt(OperatorUint16(CanId(v)))

CanId_isValidIdentifier ==
    /\ \E v \in IdValues, how \in Passings :
         eval' = [fn |-> "isValidIdentifier", arg |-> [v |-> v, how |-> how],
                  out |-> isValidIdentifier(Passed(v, how))]
    /\ UNCHANGED <<m_socketFd, m_queueSize, m_canReadQueueSize, m_collectTelemetry,
                   mutex, fdOpen, rxq, delivered, th, last, calls, life>>

CanId_classify ==
    /\ \E v \in IdValues :
         eval' = [fn |-> "classify", arg |-> [v |-> v], out |-> Classification(CanId(v))]
    /\ UNCHANGED <<m_socketFd, m_queueSize, m_canReadQueueSize, m_collectTelemetry,
                   mutex, fdOpen, rxq, delivered, th, last, calls, life>>

CanId_convert ==
    /\ \E v \in IdValues :
         eval' = [fn |-> "convert", arg |-> [v |-> v],
                  out |-> [uint32 |-> OperatorUint32(CanId(v)),
                           int32 |-> OperatorInt32(CanId(v)),
                           uint16 |-> OperatorUint16(CanId(v)),
                           int16 |-> OperatorInt16(CanId(v)),
                           deref |-> OperatorDeref(CanId(v))]]
    /\ UNCHANGED <<m_socketFd, m_queueSize, m_canReadQueueSize, m_collectTelemetry,
                   mutex, fdOpen, rxq, delivered, th, last, calls, life>>

CanId_compare ==
    /\ \E r \in CompareValues, x \in CompareValues :
         eval' = [fn |-> "compare", arg |-> [r |-> r, x |-> x],
                  out |-> Comparison(CanId(r), x)]
    /\ UNCHANGED <<m_socketFd, m_queueSize, m_canReadQueueSize, m_collectTelemetry,
                   mutex, fdOpen, rxq, delivered, th, last, calls, life>>

IdNext ==
    \/ CanId_isValidIdentifier
    \/ CanId_classify
    \/ CanId_convert
    \/ CanId_compare

IdSpec == FnInit /\ [][IdNext]_vars

(* The address portion of v fits the mask that applies to v: 11 bits if the *)
(* extended-format flag is clear, 29 bits if it is set.                     *)
FitsApplicableMask(v) == v.addr <= (IF v.eff THEN CAN_EFF_MASK ELSE CAN_SFF_MASK)

(* C23 as stated: isValidIdentifier(v) is true iff the address portion of v *)
(* fits 11 bits when the extended-format flag is clear and 29 bits when it  *)
(* is set.                                                                  *)
C23_ValidIffAddressFitsMask ==
    (eval.fn = "isValidIdentifier" /\ eval.arg.how = "value") =>
        (eval.out <=> FitsApplicableMask(eval.arg.v))

(* C23: isValidIdentifier(v) is true iff v, read as an unsigned 32-bit      *)
(* number, is at most the 29-bit mask, that is iff none of the three flag   *)
(* bits of v is set.                                                        *)
C23_ValidIffNoFlagBit ==
    (eval.fn = "isValidIdentifier" /\ eval.arg.how = "value") =>
        (eval.out <=> (~eval.arg.v.eff /\ ~eval.arg.v.rtr /\ ~eval.arg.v.err))

(* A value above 11 bits without the extended-format flag was found valid. *)
C23_Witness ==
    /\ eval.fn = "isValidIdentifier" /\ eval.arg.how = "value"
    /\ eval.arg.v = canid_t(FALSE, FALSE, FALSE, 1193046) /\ eval.out

(* C24: isValidIdentifier gives for the CanId built from v, passed as it is *)
(* or cast to a 16-bit or 32-bit integer, the verdict it gives for v.       *)
C24_SameVerdictThroughCanId ==
    (eval.fn = "isValidIdentifier" /\ eval.arg.how # "value") =>
        (eval.out <=> isValidIdentifier(eval.arg.v))

(* C25: the flag getters of CanId(v) read bits 29, 30 and 31 of v, the      *)
(* standard-format test is the negation of the extended-format test, and    *)
(* each sub-error predicate is true iff the error flag and its mask bit are *)
(* both set.                                                                *)
C25_FlagsAndSubErrors ==
    eval.fn = "classify" =>
        LET v == eval.arg.v
            o == eval.out
            bit(mask) == v.err /\ (v.addr \div mask) % 2 = 1
        IN /\ o.hasErrorFrameFlag <=> v.err
           /\ o.hasRtrFrameFlag <=> v.rtr
           /\ o.isExtendedFrameId <=> v.eff
           /\ o.isStandardFrameId <=> ~o.isExtendedFrameId
           /\ o.hasBusError <=> bit(128)
           /\ o.hasBusOffError <=> bit(64)
           /\ o.hasControllerProblem <=> bit(4)
           /\ o.hasControllerRestarted <=> bit(256)
           /\ o.hasErrorCounter <=> bit(512)
           /\ o.hasLostArbitration <=> bit(2)
           /\ o.hasProtocolViolation <=> bit(8)
           /\ o.hasTransceiverStatus <=> bit(16)
           /\ o.missingAckOnTransmit <=> bit(32)
           /\ o.isTxTimeout <=> bit(1)

(* A remote-transmission request without the error flag, whose bus-off bit  *)
(* is set, was classified.                                                  *)
C25_Witness ==
    /\ eval.fn = "classify"
    /\ eval.arg.v = canid_t(FALSE, TRUE, FALSE, CAN_ERR_BUSOFF)
    /\ eval.out.hasRtrFrameFlag /\ ~eval.out.hasErrorFrameFlag /\ ~eval.out.hasBusOffError

(* C26: CanId(v) converts to a 32-bit integer as v with its three flag bits *)
(* cleared, to a 16-bit integer as the low 16 bits of v, and dereferences   *)
(* to v.                                                                    *)
C26_ConversionsStripFlags ==
    eval.fn = "convert" =>
        LET v == eval.arg.v
            o == eval.out
        IN /\ o.uint32 = canid_t(FALSE, FALSE, FALSE, v.addr)
           /\ o.int32 = v.addr
           /\ o.uint16 = v.addr % Two16
           /\ (o.int16 - v.addr) % Two16 = 0 /\ o.int16 >= -(Two16 \div 2)
           /\ o.int16 < Two16 \div 2
           /\ o.deref = v

(* A value with all three flag bits set and bit 15 set was converted. *)
C26_Witness ==
    /\ eval.fn = "convert"
    /\ eval.arg.v = canid_t(TRUE, TRUE, TRUE, 32768)
    /\ eval.out.uint32 = canid_t(FALSE, FALSE, FALSE, 32768)
    /\ eval.out.int16 = -32768 /\ eval.out.uint16 = 32768
    /\ eval.out.deref = eval.arg.v

(* C27: each comparison of an identifier of raw value r with an integer x   *)
(* is that comparison of r with x.                                          *)
C27_ComparesRawValue ==
    eval.fn = "compare" =>
        LET r == eval.arg.r
            x == eval.arg.x
            o == eval.out
        IN /\ o.lt <=> Less(r, x)
           /\ o.gt <=> Less(x, r)
           /\ o.le <=> (Less(r, x) \/ r = x)
           /\ o.ge <=> (Less(x, r) \/ r = x)
           /\ o.eq <=> r = x
           /\ o.ne <=> r # x
           /\ o.lt => o.le
           /\ (o.lt /\ ~o.eq /\ ~o.gt) \/ (~o.lt /\ o.eq /\ ~o.gt) \/ (~o.lt /\ ~o.eq /\ o.gt)

----------------------------------------------------------------------------
(* Messages: construction from an identifier and a payload, the payload     *)
(* read back, and the error-frame accessors.  A payload is the sequence of  *)
(* its bytes, each 0..255.                                                  *)

CAN_MAX_DLEN == 8
CANFD_MAX_DLEN == 64

(* getFrameData, CanMessage.hpp lines 138-144: the first can_dlc bytes of   *)
(* the frame's data.                                                        *)
getFrameData_UntilNul(m) ==
    LET n == m.frame.dlc
        nul == {k \in 1..n : m.frame.data[k] = 0}
        end == IF nul = {} THEN n ELSE (CHOOSE k \in nul : \A j \in nul : k <= j) - 1
    IN SubSeq(m.frame.data, 1, end)

getFrameData(m) == SubSeq(m.frame.data, 1, m.frame.dlc)

(* CanMessageT(const CanId&, const string&), lines 92-100. *)
CanMessage_TooBig(payload) == Len(payload) > CAN_MAX_DLEN

(* CanFdMessage(const CanId, const string&), CanFdMessage.hpp line 68: the  *)
(* members are set from the arguments.                                      *)
CanFdMessage(id, frameData) == [canId |-> id, frameData |-> frameData]

(* isMessageValid, line 59, which only setFrameData consults (line 122). *)
isMessageValid(frameData) == Len(frameData) <= CANFD_MAX_DLEN

(* fromErrorCode of the three error classes: the code (and location) given, *)
(* with the text of the matching case of the switch or of its default case. *)
ControllerErrorCodes == {0, 1, 2, 4, 8, 16, 32, 64}
ProtocolErrorCodes == {0, 1, 2, 4, 8, 16, 32, 64, 128}
TransceiverErrorCodes == {0, 4, 5, 6, 7, 64, 80, 96, 112, 128}

ControllerError_NoText(code) == [errorCode |-> code, errorMessage |-> "Unknown error"]

ControllerError(code) ==
    [errorCode |-> code,
     errorMessage |->
        CASE code = 0 -> "Unspecified error"
          [] code = 1 -> "Receive overflow error"
          [] code = 2 -> "Transmit overflow error"
          [] code = 4 -> "Receive warning error"
          [] code = 8 -> "Transmit warning error"
          [] code = 16 -> "Receive passive error"
          [] code = 32 -> "Transmit passive error"
          [] code = 64 -> "Recovered to active state"
          [] OTHER -> "Unknown error"]

ProtocolError(code, location) ==
    [errorCode |-> code, errorLocation |-> location,
     errorMessage |->
        CASE code = 0 -> "Unspecified error occurred"
          [] code = 1 -> "Single bit error occurred"
          [] code = 2 -> "Frame format error occurred"
          [] code = 4 -> "Bit stuffing error occurred"
          [] code = 8 -> "Dominant bit failure occurred"
          [] code = 16 -> "Recessive bit failure occurred"
          [] code = 32 -> "Overload error occurred"
          [] code = 64 -> "Active error occurred"
          [] code = 128 -> "Transmission error occurred"
          [] OTHER -> "Unknown error occurred"]

TransceiverError(code) ==
    [errorCode |-> code,
     errorMessage |->
        CASE code = 0 -> "Unspecified error."
          [] code = 4 -> "CANH no wire error."
          [] code = 5 -> "CANH short to battery error."
          [] code = 6 -> "CANH short to VCC error."
          [] code = 7 -> "CANH short to ground error."
          [] code = 64 -> "CANL no wire error."
          [] code = 80 -> "CANL short to battery error."
          [] code = 96 -> "CANL short to VCC error."
          [] code = 112 -> "CANL short to ground error."
          [] code = 128 -> "CANL short to CANH error."
          [] OTHER -> "Unknown error."]

(* The accessors of CanMessage.hpp lines 179-185; data[k] of the source is  *)
(* m.frame.data[k + 1].                                                     *)
getControllerError(m) == ControllerError(m.frame.data[2])

getProtocolError_LocationFromCode(m) == ProtocolError(m.frame.data[3], m.frame.data[3])

getProtocolError(m) == ProtocolError(m.frame.data[3], m.frame.data[4])
getTransceiverError(m) == TransceiverError(m.frame.data[5])
getTxErrorCounter(m) == m.frame.data[7]
getRxErrorCounter(m) == m.frame.data[8]
arbitrationLostInBit(m) == m.frame.data[1]

(* Payloads: every sequence of up to three bytes from {0, 65}, and longer   *)
(* ones up to one byte above each maximum.                                  *)
Ramp(n) == [k \in 1..n |-> k % 256]
ShortPayloads == SeqsUpTo({0, 65}, 3)
ClassicPayloads ==
    ShortPayloads \cup {Ramp(n) : n \in (CAN_MAX_DLEN - 1)..(CAN_MAX_DLEN + 2)}
                  \cup {<<84, 101, 0, 116, 0, 0, 116, 97>>, <<0, 0, 0, 0, 0, 0, 0, 0>>}
FdPayloads ==
    ShortPayloads \cup {Ramp(n) : n \in {CAN_MAX_DLEN + 1, CANFD_MAX_DLEN,
                                         CANFD_MAX_DLEN + 1, CANFD_MAX_DLEN + 2}}
MessageIds == {canid_t(FALSE, FALSE, FALSE, 291), canid_t(TRUE, FALSE, FALSE, CAN_SFF_MASK + 1),
               canid_t(FALSE, FALSE, TRUE, CAN_ERR_PROT)}

(* Error frames: the eight data bytes drawn from two values per byte. *)
ErrorFrames ==
    {can_frame(canid_t(FALSE, FALSE, TRUE, CAN_ERR_PROT), CAN_MAX_DLEN,
               <<b0, b1, b2, b3, b4, 0, b6, b7>>) :
        b0 \in {0, 17}, b1 \in {0, 4}, b2 \in {0, 8, 255}, b3 \in {0, 10, 255},
        b4 \in {0, 80}, b6 \in {0, 96}, b7 \in {0, 127}}

CanMessage_construct ==
    /\ \E id \in MessageIds, payload \in ClassicPayloads :
         eval' = [fn |-> "CanMessage", arg |-> [id |-> id, payload |-> payload],
                  out |-> IF CanMessage_TooBig(payload)
                             THEN [res |-> "PayloadTooLarge"]
                             ELSE [res |-> "ok", message |-> MessageFromId(id, payload),
                                   frameData |-> getFrameData(MessageFromId(id, payload))]]
    /\ UNCHANGED <<m_socketFd, m_queueSize, m_canReadQueueSize, m_collectTelemetry,
                   mutex, fdOpen, rxq, delivered, th, last, calls, life>>

CanFdMessage_construct ==
    /\ \E id \in MessageIds, payload \in FdPayloads :
         eval' = [fn |-> "CanFdMessage", arg |-> [id |-> id, payload |-> payload],
                  out |-> [res |-> "ok", message |-> CanFdMessage(id, payload)]]
    /\ UNCHANGED <<m_socketFd, m_queueSize, m_canReadQueueSize, m_collectTelemetry,
                   mutex, fdOpen, rxq, delivered, th, last, calls, life>>

(* setFrameData, CanFdMessage.hpp lines 121-124, on an empty message. *)
CanFdMessage_setFrameData ==
    /\ \E id \in MessageIds, payload \in FdPayloads :
         eval' = [fn |-> "setFrameData", arg |-> [id |-> id, payload |-> payload],
                  out |-> IF ~isMessageValid(payload)
                             THEN [res |-> "CanException", message |-> CanFdMessage(id, <<>>)]
                             ELSE [res |-> "ok", message |-> CanFdMessage(id, payload)]]
    /\ UNCHANGED <<m_socketFd, m_queueSize, m_canReadQueueSize, m_collectTelemetry,
                   mutex, fdOpen, rxq, delivered, th, last, calls, life>>

CanMessage_errors ==
    /\ \E frame \in ErrorFrames :
         LET m == MessageFromFrame(frame) IN
         eval' = [fn |-> "errors", arg |-> [frame |-> frame],
                  out |-> [arbitrationLostInBit |-> arbitrationLostInBit(m),
                           controller |-> getControllerError(m),
                           protocol |-> getProtocolError(m),
                           transceiver |-> getTransceiverError(m),
                           tx |-> getTxErrorCounter(m),
                           rx |-> getRxErrorCounter(m)]]
    /\ UNCHANGED <<m_socketFd, m_queueSize, m_canReadQueueSize, m_collectTelemetry,
                   mutex, fdOpen, rxq, delivered, th, last, calls, life>>

(* fromErrorCode of each class applied to a byte (an enum over uint8_t). *)
MaxByte == 255

fromErrorCode_apply ==
    /\ \E code \in 0..MaxByte, location \in {0, 10} :
         eval' = [fn |-> "fromErrorCode", arg |-> [code |-> code, location |-> location],
                  out |-> [controller |-> ControllerError(code),
                           protocol |-> ProtocolError(code, location),
                           transceiver |-> TransceiverError(code)]]
    /\ UNCHANGED <<m_socketFd, m_queueSize, m_canReadQueueSize, m_collectTelemetry,
                   mutex, fdOpen, rxq, delivered, th, last, calls, life>>

MessageNext ==
    \/ fromErrorCode_apply
    \/ CanMessage_construct
    \/ CanFdMessage_construct
    \/ CanFdMessage_setFrameData
    \/ CanMessage_errors

MessageSpec == FnInit /\ [][MessageNext]_vars

(* C28: a message constructed from an identifier and a payload of at most   *)
(* 8 bytes gives back from getFrameData that payload: same length, same     *)
(* bytes, same order.                                                       *)
C28_PayloadRoundTrip ==
    (eval.fn = "CanMessage" /\ Len(eval.arg.payload) <= CAN_MAX_DLEN) =>
        (eval.out.res = "ok" /\ eval.out.frameData = eval.arg.payload)

(* A payload of 8 bytes with zero bytes inside came back whole. *)
C28_Witness ==
    /\ eval.fn = "CanMessage" /\ eval.out.res = "ok"
    /\ eval.arg.payload = <<84, 101, 0, 116, 0, 0, 116, 97>>
    /\ eval.out.frameData = eval.arg.payload

(* C29: constructing a message from an identifier and a payload succeeds    *)
(* if the payload is no longer than the maximum of the message's kind (8,   *)
(* or 64 for CAN FD) and fails with PayloadTooLarge if it is longer, and    *)
(* no message holds a payload longer than that maximum.                     *)
C29_PayloadBoundAtConstruction ==
    /\ eval.fn = "CanMessage" =>
          /\ eval.out.res = (IF Len(eval.arg.payload) <= CAN_MAX_DLEN
                                THEN "ok" ELSE "PayloadTooLarge")
          /\ eval.out.res = "ok" => eval.out.message.frame.dlc <= CAN_MAX_DLEN
    /\ eval.fn = "CanFdMessage" =>
          /\ eval.out.res = (IF Len(eval.arg.payload) <= CANFD_MAX_DLEN
                                THEN "ok" ELSE "PayloadTooLarge")
          /\ eval.out.res = "ok" => Len(eval.out.message.frameData) <= CANFD_MAX_DLEN
    /\ eval.fn = "setFrameData" => Len(eval.out.message.frameData) <= CANFD_MAX_DLEN

(* C30: the error accessors of a message return payload bytes 0, 1, 2 and   *)
(* 3, 4, 6 and 7, each whatever the other bytes hold.                       *)
C30_ErrorBytesAtFixedOffsets ==
    eval.fn = "errors" =>
        LET d == eval.arg.frame.data
            o == eval.out
        IN /\ o.arbitrationLostInBit = d[1]
           /\ o.controller.errorCode = d[2]
           /\ o.protocol.errorCode = d[3]
           /\ o.protocol.errorLocation = d[4]
           /\ o.transceiver.errorCode = d[5]
           /\ o.tx = d[7]
           /\ o.rx = d[8]

(* An error frame whose protocol code and location differ was decoded. *)
C30_Witness ==
    /\ eval.fn = "errors"
    /\ eval.arg.frame.data = <<17, 4, 8, 10, 80, 0, 96, 127>>
    /\ eval.out.protocol.errorCode = 8 /\ eval.out.protocol.errorLocation = 10
    /\ eval.out.tx = 96 /\ eval.out.rx = 127

(* C31: a message constructed from an identifier and a payload of at most   *)
(* 8 bytes has that identifier, a raw frame whose can_id is the raw value   *)
(* of the identifier, and a can_dlc equal to the payload's length.          *)
C31_IdAndRawFrameAgree ==
    (eval.fn = "CanMessage" /\ Len(eval.arg.payload) <= CAN_MAX_DLEN) =>
        /\ eval.out.res = "ok"
        /\ eval.out.message.canId = eval.arg.id
        /\ eval.out.message.frame.can_id = OperatorDeref(eval.arg.id)
        /\ eval.out.message.frame.dlc = Len(eval.arg.payload)

(* The text fromErrorCode gives for a byte that is no defined code. *)
UnknownTexts == {"Unknown error", "Unknown error occurred", "Unknown error."}

(* C32: for every byte each fromErrorCode returns a result carrying that    *)
(* very byte as its code, defined or not; the text is the generic unknown   *)
(* text exactly when the byte is not one of the class's defined codes (a    *)
(* byte with several code bits set is not), and the unspecified code 0 has  *)
(* its own text.                                                            *)
C32_TaxonomiesTotal ==
    eval.fn = "fromErrorCode" =>
        LET b == eval.arg.code
            o == eval.out
        IN /\ o.controller.errorCode = b
           /\ o.protocol.errorCode = b /\ o.protocol.errorLocation = eval.arg.location
           /\ o.transceiver.errorCode = b
           /\ o.controller.errorMessage \in UnknownTexts <=> b \notin {0, 1, 2, 4, 8, 16, 32, 64}
           /\ o.protocol.errorMessage \in UnknownTexts <=> b \notin {0, 1, 2, 4, 8, 16, 32, 64, 128}
           /\ o.transceiver.errorMessage \in UnknownTexts
                 <=> b \notin {0, 4, 5, 6, 7, 64, 80, 96, 112, 128}
           /\ b = 0 => /\ o.controller.errorMessage = "Unspecified error"
                       /\ o.transceiver.errorMessage = "Unspecified error."
           /\ b = 1 => o.controller.errorMessage = "Receive overflow error"
           /\ b = 80 => o.transceiver.errorMessage = "CANL short to battery error."

(* C32 as stated: the result for a byte that is no defined code is a       *)
(* variant of the enumeration (the unspecified one or an unknown one).      *)
C32_UndefinedByteBecomesVariant ==
    (eval.fn = "fromErrorCode" /\ eval.arg.code \notin ControllerErrorCodes) =>
        eval.out.controller.errorCode \in ControllerErrorCodes

(* A byte with two controller code bits set got the unknown text, while the *)
(* same byte is a defined transceiver code.                                 *)
C32_Witness ==
    /\ eval.fn = "fromErrorCode" /\ eval.arg.code = 5
    /\ eval.out.controller = [errorCode |-> 5, errorMessage |-> "Unknown error"]
    /\ eval.out.transceiver.errorMessage = "CANH short to battery error."

----------------------------------------------------------------------------
(* Draining, losing and counting frames *)

(* The frames the kernel delivered last, n of them, in the order delivered. *)
LastDelivered(n) == [k \in 1..n |-> delivered - n + k]

(* C33: in unknown-queue-size mode the drain reads successfully once per    *)
(* frame and collects the frames in kernel order; it returns after one more *)
(* read, which reported "would block", with every frame that was queued     *)
(* (none arrives between its last read and its return), and leaves the      *)
(* kernel queue empty.                                                      *)
C33_DrainsUntilWouldBlock ==
    /\ \A t \in Threads :
         th[t].pc = "rqm_B" =>
            /\ th[t].nreads = Len(th[t].msgs)
            /\ FramesOf(th[t].msgs) \o rxq = LastDelivered(Len(th[t].msgs) + Len(rxq))
    /\ (Completed("readQueuedMessages") /\ last.call.branch = "B" /\ last.call.res = "ok") =>
         /\ last.call.errno = "EAGAIN"
         /\ last.call.nreads = Len(last.call.msgs) + 1
         /\ FramesOf(last.call.msgs) = LastDelivered(Len(last.call.msgs))
         /\ rxq = <<>>

(* A drain in unknown mode returned two frames after three reads. *)
C33_Witness ==
    /\ Completed("readQueuedMessages") /\ last.call.branch = "B" /\ last.call.res = "ok"
    /\ Len(last.call.msgs) = 2 /\ last.call.nreads = 3 /\ rxq = <<>>

(* C34: no step of any call issues a syscall on the socket while            *)
(* m_socketFd is the invalid handle -1, whatever the interleaving with      *)
(* uninitialiseSocketCan.                                                   *)
C34_NoSyscallOnInvalidHandle ==
    [][ \A t \in Threads :
          (/\ th[t].pc # "idle"
           /\ th'[t] # th[t]
           /\ th'[t].pc = "idle" => last'.thread = t
           /\ After(t).nsys > th[t].nsys) => ~InvalidSocket(m_socketFd) ]_vars

(* C35: every frame a step of readMessage or readQueuedMessages removes     *)
(* from the kernel queue is among the messages the call holds afterwards,   *)
(* and a call that raises holds no frame it removed earlier: no frame is    *)
(* removed without being returned.                                          *)
C35_NoFrameLost ==
    [][ \A t \in Threads :
          (/\ th[t].pc \in {"rm_read", "rqm_A", "rqm_B"}
           /\ th'[t] # th[t]
           /\ th'[t].pc = "idle" => last'.thread = t) =>
             /\ Len(rxq') < Len(rxq) =>
                  \E k \in 1..Len(After(t).msgs) : After(t).msgs[k].frame = Head(rxq)
             /\ (th'[t].pc = "idle" /\ last'.call.res # "ok") => th[t].msgs = <<>> ]_vars

(* C36: in known-queue-size mode, whenever m_lock is free the cached count  *)
(* m_queueSize does not exceed the number of frames in the kernel queue.    *)
C36_CachedCountNeverOverstates ==
    (m_canReadQueueSize /\ mutex["m_lock"] = NoThread) => m_queueSize <= Len(rxq)

----------------------------------------------------------------------------
(* Unwinding, recorded filters, destruction *)

(* C37: when a constructor ends with InitializationFailure the descriptor   *)
(* socket() returned, if any, has been closed.                              *)
C37_FailedInitClosesSocket ==
    life.pc = "thrown" => ~fdOpen

(* The filter entries of a mapping, as a set. *)
EntriesOf(filters) == {can_filter(id, filters[id]) : id \in DOMAIN filters}

(* C39: after setCanFilters or setCanFilterMask on a constructed driver,    *)
(* successful or failed, getFilterMask() is the mapping whose entries are   *)
(* in force on the socket.                                                  *)
C39_RecordedFiltersTrackApplied ==
    (life.pc = "done" /\ life.op \in {"setCanFilters", "setCanFilterMask"}) =>
        EntriesOf(getFilterMask) = {life.inForce[k] : k \in 1..Len(life.inForce)}

(* C40: the destructor completes without raising in every state, and it     *)
(* calls close() exactly once on a bound driver and not at all on a driver  *)
(* that was default-constructed or is already closed.                       *)
C40_DestructorNeverRaises ==
    [][ (life.pc \in {"done", "unbound", "closed"} /\ life'.op = "~CanDriver"
         /\ life'.pc \notin {"done", "unbound", "closed"}) =>
            /\ life'.pc = "destroyed" /\ life'.opRes = "ok"
            /\ life'.closes - life.closes = (IF life.pc = "done" THEN 1 ELSE 0)
            /\ ~fdOpen' ]_vars

(* The calls of sendMessageQueue in progress and the one just completed. *)
QueueSends ==
    {th[t] : t \in {u \in Threads : th[u].op = "sendMessageQueue"}}
        \cup (IF Completed("sendMessageQueue") THEN {last.call} ELSE {})

(* C38: at every point of a sendMessageQueue call the caller's queue is the *)
(* original queue without its first k messages, where the frames written    *)
(* are exactly those of these k messages, in order; after success the queue *)
(* is empty; after a failure it is not: it begins with the message that     *)
(* failed, followed by the later ones.                                      *)
C38_PoppedOnlyAfterSend ==
    \A c \in QueueSends :
        LET k == Len(c.sent) IN
        /\ k <= Len(c.q0)
        /\ c.inq = SubSeq(c.q0, k + 1, Len(c.q0))
        /\ c.sent = [j \in 1..k |-> OutgoingFrame(c.q0[j], c.ext)]
        /\ c.res = "ok" => c.inq = <<>>
        /\ c.res \in {"PayloadTooLarge", "IoFailure"} => c.inq # <<>>
        /\ c.res = "PayloadTooLarge" => PayloadTooLarge(Head(c.inq))

(* The write of the second of three messages failed: one frame written, the *)
(* second and third message still queued.                                   *)
C38_Witness ==
    /\ Completed("sendMessageQueue") /\ last.call.res = "IoFailure"
    /\ Len(last.call.q0) = 3 /\ Len(last.call.sent) = 1
    /\ last.call.inq = SubSeq(last.call.q0, 2, 3)

====
